---------------------------- MODULE Spec2Model ----------------------------
(* State-machine model of lcmaps_pilot_sub_proxy_utils.c:                  *)
(*   - the process credentials and the seteuid/setegid calls on them,      *)
(*     priv_drop and raise_priv;                                           *)
(*   - read_proxy with filelock, run against a file that another process   *)
(*     may rewrite and lock;                                               *)
(*   - psp_verify_proxy_signature, pem_string_to_x509_chain,               *)
(*     psp_proxy_is_rfc and psp_proxy_is_limited as operators applied to   *)
(*     inputs drawn from bounded sets;                                     *)
(*   - filelock on its own, psp_get_pilot_proxy around read_proxy, the     *)
(*     FQAN functions, and psp_get_payload_proxy with psp_cleanup_chains   *)
(*     over several decisions of one process.                              *)
EXTENDS Integers, Sequences, FiniteSets, TLC

VARIABLES
    cred,     \* credentials of the process: real, effective and saved ids
    pc,       \* control point of the operation in progress
    loc,      \* the locals of read_proxy
    file,     \* the credential file: owner, mode, data, mtime, ctime
    fdt,      \* the descriptor read_proxy opened and the locks held through it
    wr,       \* the other process: its lock discipline and the locks it holds
    hist,     \* history of the run (what was called, under which identity)
    call,     \* standalone operations: the inputs of the call
    result,   \* standalone operations: what the call returned
    payload_chain_needs_cleaning  \* the global of line 69

vars == <<cred, pc, loc, file, fdt, wr, hist, call, result,
          payload_chain_needs_cleaning>>

(***************************************************************************)
(* Bounds of the model                                                     *)
(***************************************************************************)
MaxSize == 1       \* longest file content, in bytes
MaxTime == 1       \* latest timestamp (whole seconds, as st_mtime/st_ctime)
MaxOps  == 2       \* calls in a row of priv_drop / raise_priv
MaxCerts == 3      \* PEM blocks in a string, extensions in a certificate
MaxKey  == 3       \* distinct key pairs
MaxFqans == 2      \* FQANs in a list

Root  == 0                   \* the superuser / the root group
Ids   == {0, 1, 2}           \* root, the invoking account, another account
Bytes == {1, 2}              \* two distinguishable file contents

None == "none"

Min(a, b) == IF a <= b THEN a ELSE b

\* (x & b) # 0 for a single-bit b
HasBit(x, b) == (x \div b) % 2 = 1

(***************************************************************************)
(* Process credentials and the identity calls                              *)
(*                                                                         *)
(* A call yields [cred, rc, calls]: the credentials after it, its return   *)
(* code and the calls issued, each with its argument and return code.      *)
(* `ok` is the kernel's answer beyond the permission rule: FALSE when the  *)
(* call is refused although the rule would allow it.                       *)
(***************************************************************************)
Creds == [ruid : Ids, euid : Ids, suid : Ids, rgid : Ids, egid : Ids, sgid : Ids]

\* seteuid(2): allowed to the superuser, or to the real or saved uid
seteuid(c, uid, ok) ==
    LET allowed == c.euid = Root \/ uid \in {c.ruid, c.euid, c.suid}
        rc      == IF ok /\ allowed THEN 0 ELSE -1
    IN [cred  |-> IF rc = 0 THEN [c EXCEPT !.euid = uid] ELSE c,
        rc    |-> rc,
        calls |-> <<[fn |-> "seteuid", arg |-> uid, rc |-> rc]>>]

\* setegid(2): allowed to the superuser, or to the real or saved gid
setegid(c, gid, ok) ==
    LET allowed == c.euid = Root \/ gid \in {c.rgid, c.egid, c.sgid}
        rc      == IF ok /\ allowed THEN 0 ELSE -1
    IN [cred  |-> IF rc = 0 THEN [c EXCEPT !.egid = gid] ELSE c,
        rc    |-> rc,
        calls |-> <<[fn |-> "setegid", arg |-> gid, rc |-> rc]>>]

NoCall(c) == [cred |-> c, rc |-> 0, calls |-> <<>>]

\* b after a: b's credentials and return code, the calls of both
Then(a, b) == [cred |-> b.cred, rc |-> b.rc, calls |-> a.calls \o b.calls]

\* the answers of the kernel to the (at most three) calls of one operation
Answers(oks) == [1..3 -> oks]
\* the same for an operation that stops at the first call refused: at most
\* one refusal
AnswersToFirst(oks) == {f \in Answers(oks) : \A i, j \in 1..3 : f[i] \/ f[j] \/ i = j}

\* which call of a step fails, if any: "ok", or one of `faults`
Outcomes(oks, faults) == {"ok"} \cup (IF FALSE \in oks THEN faults ELSE {})

\* priv_drop that changes the effective uid before the effective gid
priv_drop_UidFirst(c, unpriv_uid, unpriv_gid, f) ==
    LET euid == c.euid
        egid == c.egid
        s1 == IF unpriv_uid = 0 \/ unpriv_uid = euid
              THEN NoCall(c) ELSE seteuid(c, unpriv_uid, f[1])
    IN IF s1.rc # 0 THEN s1
       ELSE LET s2 == Then(s1, IF unpriv_gid = egid
                               THEN NoCall(s1.cred)
                               ELSE setegid(s1.cred, unpriv_gid, f[2]))
            IN IF s2.rc # 0
               THEN [Then(s2, seteuid(s2.cred, euid, f[3])) EXCEPT !.rc = s2.rc]
               ELSE s2

priv_drop(c, unpriv_uid, unpriv_gid, f) ==
    LET euid == c.euid
        egid == c.egid
        s1 == IF unpriv_gid = egid THEN NoCall(c) ELSE setegid(c, unpriv_gid, f[1])
    IN IF s1.rc # 0 THEN s1
       ELSE LET s2 == Then(s1, IF unpriv_uid = 0 \/ unpriv_uid = euid
                               THEN NoCall(s1.cred)
                               ELSE seteuid(s1.cred, unpriv_uid, f[2]))
            IN IF s2.rc # 0
               THEN \* setegid succeeded, seteuid failed: damage control
                    [Then(s2, setegid(s2.cred, egid, f[3])) EXCEPT !.rc = s2.rc]
               ELSE s2

\* raise_priv that restores the group before the user when the target
\* effective uid is 0
raise_priv_GidFirst(c, euid, egid, f) ==
    LET uid == c.ruid
        fail(s) == [s EXCEPT !.rc = -1]
    IN IF euid = 0
       THEN LET a == setegid(c, egid, f[1])
            IN IF a.rc # 0 THEN fail(a)
               ELSE LET b == Then(a, seteuid(a.cred, euid, f[2]))
                    IN IF b.rc # 0 THEN fail(b) ELSE b
       ELSE IF uid = 0
       THEN LET a == seteuid(c, 0, f[1])
            IN IF a.rc # 0 THEN fail(a)
               ELSE LET b == Then(a, setegid(a.cred, egid, f[2]))
                    IN IF b.rc # 0 THEN fail(b)
                       ELSE LET d == Then(b, seteuid(b.cred, euid, f[3]))
                            IN IF d.rc # 0 THEN fail(d) ELSE d
       ELSE fail(NoCall(c))

\* raise_priv with && for || in the first ordering: the group is set only
\* when setting the user failed
raise_priv_AndForOr(c, euid, egid, f) ==
    LET uid == c.ruid
        fail(s) == [s EXCEPT !.rc = -1]
    IN IF euid = 0
       THEN LET a == seteuid(c, euid, f[1])
            IN IF a.rc = 0 THEN a
               ELSE LET b == Then(a, setegid(a.cred, egid, f[2]))
                    IN IF b.rc # 0 THEN fail(b) ELSE b
       ELSE IF uid = 0
       THEN LET a == seteuid(c, 0, f[1])
            IN IF a.rc # 0 THEN fail(a)
               ELSE LET b == Then(a, setegid(a.cred, egid, f[2]))
                    IN IF b.rc # 0 THEN fail(b)
                       ELSE LET d == Then(b, seteuid(b.cred, euid, f[3]))
                            IN IF d.rc # 0 THEN fail(d) ELSE d
       ELSE fail(NoCall(c))

raise_priv(c, euid, egid, f) ==
    LET uid == c.ruid
        fail(s) == [s EXCEPT !.rc = -1]
    IN IF euid = 0
       THEN LET a == seteuid(c, euid, f[1])
            IN IF a.rc # 0 THEN fail(a)
               ELSE LET b == Then(a, setegid(a.cred, egid, f[2]))
                    IN IF b.rc # 0 THEN fail(b) ELSE b
       ELSE IF uid = 0
       THEN LET a == seteuid(c, 0, f[1])
            IN IF a.rc # 0 THEN fail(a)
               ELSE LET b == Then(a, setegid(a.cred, egid, f[2]))
                    IN IF b.rc # 0 THEN fail(b)
                       ELSE LET d == Then(b, seteuid(b.cred, euid, f[3]))
                            IN IF d.rc # 0 THEN fail(d) ELSE d
       ELSE fail(NoCall(c))

(***************************************************************************)
(* Values of the variables an operation does not use                       *)
(***************************************************************************)
IdleCred == [ruid |-> 0, euid |-> 0, suid |-> 0, rgid |-> 0, egid |-> 0, sgid |-> 0]
IdleLoc  == [lock_type |-> 0]
IdleFile == [uid |-> 0, gid |-> 0, mode |-> 0, data |-> <<>>, mtime |-> 0,
             ctime |-> 0]
IdleFdt  == [fd |-> -1, offset |-> 0, locks |-> {}]
IdleWr   == [policy |-> 0, holds |-> {}]
IdleHist == [n |-> 0]

(***************************************************************************)
(* priv_drop and raise_priv called in a row                                *)
(*                                                                         *)
(* result is the sequence of calls made so far, each with the credentials  *)
(* before and after it.                                                    *)
(***************************************************************************)
\* credentials as exec leaves them: the saved ids equal the effective ids
ExecCreds == {c \in Creds : c.suid = c.euid /\ c.sgid = c.egid}

InitPrivOf(creds) ==
    /\ payload_chain_needs_cleaning = 0
    /\ cred \in creds
    /\ pc = "priv"
    /\ result = <<>>
    /\ call = None
    /\ loc = IdleLoc /\ file = IdleFile /\ fdt = IdleFdt /\ wr = IdleWr
    /\ hist = IdleHist

PD_Drop(oks) ==
    /\ pc = "priv" /\ Len(result) < MaxOps
    /\ \E unpriv_uid \in Ids, unpriv_gid \in Ids, f \in Answers(oks) :
          LET r == priv_drop(cred, unpriv_uid, unpriv_gid, f)
          IN /\ cred' = r.cred
             /\ result' = Append(result,
                    [op |-> "priv_drop", uid |-> unpriv_uid, gid |-> unpriv_gid,
                     before |-> cred, after |-> r.cred, rc |-> r.rc,
                     calls |-> r.calls])
    /\ UNCHANGED <<pc, loc, file, fdt, wr, hist, call,
                   payload_chain_needs_cleaning>>

PD_Raise(oks) ==
    /\ pc = "priv" /\ Len(result) < MaxOps
    /\ \E euid \in Ids, egid \in Ids, f \in Answers(oks) :
          LET r == raise_priv(cred, euid, egid, f)
          IN /\ cred' = r.cred
             /\ result' = Append(result,
                    [op |-> "raise_priv", uid |-> euid, gid |-> egid,
                     before |-> cred, after |-> r.cred, rc |-> r.rc,
                     calls |-> r.calls])
    /\ UNCHANGED <<pc, loc, file, fdt, wr, hist, call,
                   payload_chain_needs_cleaning>>

NextPriv == PD_Drop(BOOLEAN) \/ PD_Raise(BOOLEAN)
NextPrivNominal == PD_Drop({TRUE}) \/ PD_Raise({TRUE})

\* any credentials, a kernel that may refuse any call
SpecPriv == InitPrivOf(Creds) /\ [][NextPriv]_vars
\* a set-id program: credentials as exec leaves them, calls refused only
\* by the permission rule
SpecPrivNominal == InitPrivOf(ExecCreds) /\ [][NextPrivNominal]_vars

\* one call of priv_drop or raise_priv, from any credentials, with a kernel
\* that may refuse any call
NextPrivOnce ==
    \/ result = <<>> /\ PD_Drop(BOOLEAN)
    \/ result = <<>> /\ PD_Raise(BOOLEAN)
SpecPrivOnce == InitPrivOf(Creds) /\ [][NextPrivOnce]_vars

(***************************************************************************)
(* read_proxy                                                              *)
(***************************************************************************)
LCK_NOLOCK == 1
LCK_FCNTL  == 2
LCK_FLOCK  == 4
\* one attempt less
tries_OneLess == 10 - 1
tries      == 10

S_IRGRP == 32
S_IWGRP == 16
S_IROTH == 4
S_IWOTH == 2
S_IRWUSR == 384
S_IRUSR == 256

\* the lock_type values read_proxy is run with: none, fcntl, flock, both
LockTypes == {LCK_NOLOCK, LCK_FCNTL, LCK_FLOCK, LCK_FCNTL + LCK_FLOCK}
\* mode 0600 and the modes that add one group/other read or write bit
Modes == {S_IRWUSR, S_IRWUSR + S_IRGRP, S_IRWUSR + S_IWGRP,
          S_IRWUSR + S_IROTH, S_IRWUSR + S_IWOTH}
\* file contents: up to MaxSize bytes, one content per length and byte value
Contents == {[j \in 1..n |-> b] : n \in 0..MaxSize, b \in Bytes}

\* the credential file when read_proxy is called.  Its group matters to
\* open(2) only for a caller that is neither root nor the owner: the files
\* are in group 2, which no caller is in, and those of owner 2 also in group
\* 1, the group of the caller with uid 1.
Files == {f \in [uid : Ids, gid : {1, 2}, mode : Modes, data : Contents,
                 mtime : {0}, ctime : {0}] : f.gid = 1 => f.uid = 2}

NoStat == [st_size |-> -1, st_mtime |-> -1, st_ctime |-> -1, st_uid |-> -1,
           st_mode |-> 0]

\* what fstat(2) reports of the file
fstat(f) == [st_size |-> Len(f.data), st_mtime |-> f.mtime, st_ctime |-> f.ctime,
             st_uid |-> f.uid, st_mode |-> f.mode]

\* the check without the owner
Unsafe_NoOwner(st, uid) ==
    \/ HasBit(st.st_mode, S_IRGRP) \/ HasBit(st.st_mode, S_IWGRP)
    \/ HasBit(st.st_mode, S_IROTH) \/ HasBit(st.st_mode, S_IWOTH)

\* the check without the bits of the others
Unsafe_NoOther(st, uid) ==
    \/ st.st_uid # uid
    \/ HasBit(st.st_mode, S_IRGRP) \/ HasBit(st.st_mode, S_IWGRP)

\* the check of ownership and mode (lines 657-659): TRUE when unsafe
Unsafe(st, uid) ==
    \/ st.st_uid # uid
    \/ HasBit(st.st_mode, S_IRGRP) \/ HasBit(st.st_mode, S_IWGRP)
    \/ HasBit(st.st_mode, S_IROTH) \/ HasBit(st.st_mode, S_IWOTH)

\* the comparison of two snapshots (lines 685-687): TRUE when unchanged
SameStat(s2, s1) ==
    /\ s2.st_size = s1.st_size
    /\ s2.st_mtime = s1.st_mtime
    /\ s2.st_ctime = s1.st_ctime

\* the privilege drop is attempted (line 629)
NeedsDrop(euid, uid) == euid = 0 /\ uid # 0

\* close(2): the descriptor is gone, and with it every lock held through it
close(d) == [fd |-> -1, offset |-> 0, locks |-> {}]

\* the process's identity is the real one
AtRealIds(c) == c.euid = c.ruid /\ c.egid = c.rgid

\* one file access recorded with the identity it ran under
Access(h, op) == [h EXCEPT !.access = @ \cup {<<op, AtRealIds(cred)>>}]

InitLoc(lt) ==
    [lock_type |-> lt, uid |-> -1, euid |-> -1, gid |-> -1, egid |-> -1,
     sptr1 |-> NoStat, sptr2 |-> NoStat, cap |-> -1, buf |-> <<>>,
     size |-> 0, i |-> 0, rc |-> 0, rc1 |-> 0, ret |-> None, proxy |-> None]

\* the history of a run of read_proxy:
\*   drop, restore  what priv_drop did, and what raise_priv returned (<<>>:
\*                  not called)
\*   access         the file calls made, each with AtRealIds at that time
\*   locked         the locks that were granted
\*   nread          the number of read attempts
\*   nsnap, prev, alldiff   the number of snapshots taken, size/mtime/ctime
\*                  of the last one, and whether every snapshot differed in
\*                  one of them from the one before
\*   exit           the path on which read_proxy returned
\*   mods, win, vis the writes of the other process from the first snapshot
\*                  to the last (0, 1, 2 for more); for a single one,
\*                  whether it came before the first snapshot after a read,
\*                  and whether it changed size, mtime or ctime
NoDrop == [called |-> FALSE, rc |-> 0, calls |-> <<>>]
Dropped(r) == [called |-> TRUE, rc |-> r.rc, calls |-> r.calls]

InitHist ==
    [drop |-> NoDrop, restore |-> <<>>, access |-> {}, locked |-> {}, nread |-> 0,
     nsnap |-> 0, prev |-> None, alldiff |-> TRUE,
     exit |-> None, mods |-> 0, win |-> FALSE, vis |-> FALSE]

Meta(f) == <<Len(f.data), f.mtime, f.ctime>>

\* one more snapshot of the file in the history
Snap(h) == [h EXCEPT !.nsnap = @ + 1, !.prev = Meta(file),
                     !.alldiff = @ /\ (h.prev = None \/ h.prev # Meta(file))]

\* the history at the return on path e
Exit(h, e) == [h EXCEPT !.exit = e, !.prev = None]

\* the credentials read_proxy is entered with: root, a plain user, a
\* set-uid-root program run by a user (effective group equal to or different
\* from the real one); `creds` says which saved ids go with them
ReadCreds(creds) ==
    {c \in creds : /\ c.ruid \in {0, 1} /\ c.euid \in {0, c.ruid}
                   /\ c.suid \in {c.euid, c.ruid}
                   /\ c.rgid = c.ruid /\ c.egid \in {0, c.rgid}
                   /\ c.sgid = c.egid}

InitReadOf(creds) ==
    /\ payload_chain_needs_cleaning = 0
    /\ cred \in ReadCreds(creds)
    /\ pc = "call"
    /\ loc \in {InitLoc(lt) : lt \in LockTypes}
    /\ file \in Files
    /\ fdt = IdleFdt
    /\ wr \in [policy : {0, LCK_FCNTL, LCK_FLOCK}, holds : {{}}]
    /\ hist = InitHist
    /\ call = None /\ result = None

\* what is left of the locals after the return with value v: the argument,
\* the ids read at entry, the return value, the caller's *proxy and the
\* capacity of the buffer if it was not freed (-1: no buffer)
Returned(l, v) ==
    [InitLoc(l.lock_type) EXCEPT !.uid = l.uid, !.euid = l.euid, !.gid = l.gid,
                                 !.egid = l.egid, !.ret = v, !.proxy = l.proxy,
                                 !.cap = l.cap]

\* the locals that are still read once the value to return, v, is known:
\* the ids read at entry, the buffer with its capacity and the bytes read
Pending(l, v) ==
    [InitLoc(l.lock_type) EXCEPT !.uid = l.uid, !.euid = l.euid, !.gid = l.gid,
                                 !.egid = l.egid, !.rc = v, !.cap = l.cap,
                                 !.buf = IF v = 0 THEN l.buf ELSE <<>>,
                                 !.size = IF v = 0 THEN l.size ELSE 0,
                                 !.proxy = l.proxy]

\* raise_priv(euid,egid) and the return of read_proxy with value v, as on
\* every return but the one after a failed drop
Return(v, l, h, oks) ==
    \E r \in {raise_priv(cred, l.euid, l.egid, f) : f \in AnswersToFirst(oks)} :
       /\ pc' = "done"
       /\ cred' = r.cred
       /\ loc' = Returned(l, v)
       /\ hist' = [h EXCEPT !.restore = <<r.rc>>]

\* read_proxy going on to open the file after a failed drop
RP_Call_IgnoreDrop(oks) ==
    /\ pc = "call"
    /\ LET l == [loc EXCEPT !.uid = cred.ruid, !.euid = cred.euid,
                            !.gid = cred.rgid, !.egid = cred.egid]
       IN IF NeedsDrop(l.euid, l.uid)
          THEN \E r \in {priv_drop(cred, l.uid, l.gid, f) : f \in Answers(oks)} :
                    /\ cred' = r.cred
                    /\ hist' = [hist EXCEPT !.drop = Dropped(r)]
                    /\ pc' = "open" /\ loc' = l
          ELSE /\ pc' = "open" /\ loc' = l
               /\ UNCHANGED <<cred, hist>>
    /\ UNCHANGED <<file, fdt, wr, call, result,
                   payload_chain_needs_cleaning>>

\* lines 622-632: the ids are read, and privilege is dropped when needed
RP_Call(oks) ==
    /\ pc = "call"
    /\ LET l == [loc EXCEPT !.uid = cred.ruid, !.euid = cred.euid,
                            !.gid = cred.rgid, !.egid = cred.egid]
       IN IF NeedsDrop(l.euid, l.uid)
          THEN \E r \in {priv_drop(cred, l.uid, l.gid, f) : f \in Answers(oks)} :
                    /\ cred' = r.cred
                    /\ hist' = IF r.rc # 0
                               THEN Exit([hist EXCEPT !.drop = Dropped(r)], "drop")
                               ELSE [hist EXCEPT !.drop = Dropped(r)]
                    /\ IF r.rc # 0
                       THEN pc' = "done" /\ loc' = Returned(l, -2)
                       ELSE pc' = "open" /\ loc' = l
          ELSE /\ loc' = l /\ pc' = "open"
               /\ UNCHANGED <<cred, hist>>
    /\ UNCHANGED <<file, fdt, wr, call, result,
                   payload_chain_needs_cleaning>>

\* the permission rule of open(path,O_RDONLY) for a process with credentials
\* c: the superuser may read any file; otherwise the read bit of the owner
\* decides for the owner, that of the group for a process whose effective
\* gid is the file's, that of the others for everybody else
MayRead(c, f) ==
    IF c.euid = Root THEN TRUE
    ELSE IF c.euid = f.uid THEN HasBit(f.mode, S_IRUSR)
    ELSE IF c.egid = f.gid THEN HasBit(f.mode, S_IRGRP)
    ELSE HasBit(f.mode, S_IROTH)

\* lines 634-639: open succeeds when the process may read the file (and
\* nothing else fails)
RP_Open(oks) ==
    /\ pc = "open"
    /\ \E ok \in {o /\ MayRead(cred, file) : o \in oks} :
         IF ok
         THEN /\ fdt' = [fd |-> 3, offset |-> 0, locks |-> {}]
              /\ hist' = Access(hist, "open")
              /\ pc' = "lock"
              /\ UNCHANGED <<cred, loc>>
         ELSE /\ Return(-1, loc, Exit(Access(hist, "open"), "open"), oks)
              /\ UNCHANGED fdt
    /\ UNCHANGED <<file, wr, call, result,
                   payload_chain_needs_cleaning>>

\* the primitives filelock uses for a lock_type (lines 565-596): none with
\* LCK_NOLOCK set, whatever the other bits
Prims(lock_type) ==
    IF HasBit(lock_type, LCK_NOLOCK) THEN {}
    ELSE (IF HasBit(lock_type, LCK_FLOCK) THEN {"flock"} ELSE {})
         \cup (IF HasBit(lock_type, LCK_FCNTL) THEN {"fcntl"} ELSE {})

\* flock(fd, LOCK_UN) or fcntl(fd, F_SETLKW, F_UNLCK) on d (lines 579 and
\* 594): the lock of primitive p is gone unless the call fails
unlock(d, p, ok) == IF ok THEN [d EXCEPT !.locks = @ \ {p}] ELSE d

\* the return after a failed lock without close
LockDone_NoClose(rc, l, d, h, oks) ==
    IF rc # 0
    THEN /\ fdt' = d
         /\ loc' = Pending(l, -6) /\ hist' = Exit(h, "lock") /\ pc' = "closed"
         /\ UNCHANGED cred
    ELSE /\ fdt' = d /\ loc' = l /\ hist' = h /\ pc' = "fstat"
         /\ UNCHANGED cred

\* the end of filelock(fd, lock_type, LCK_READ) in read_proxy (lines 641-643)
\* with return code rc; d is the descriptor after the locking calls.  After
\* a failure the descriptor is closed; raise_priv and the return follow in
\* a step of their own (RP_Finish)
LockDone(rc, l, d, h, oks) ==
    IF rc # 0
    THEN /\ fdt' = close(d)
         /\ loc' = Pending(l, -6) /\ hist' = Exit(h, "lock") /\ pc' = "closed"
         /\ UNCHANGED cred
    ELSE /\ fdt' = d /\ loc' = l /\ hist' = h /\ pc' = "fstat"
         /\ UNCHANGED cred

\* RP_Lock with flock(fd, LOCK_SH|LOCK_NB): a held lock is a failure, not
\* a wait
RP_Lock_NoWait(oks) ==
    /\ pc = "lock"
    /\ IF HasBit(loc.lock_type, LCK_NOLOCK)
       THEN LockDone(0, loc, fdt, hist, oks)
       ELSE IF HasBit(loc.lock_type, LCK_FLOCK)
       THEN \E okc \in oks :
              LET ok  == okc /\ "flock" \notin wr.holds
                  rc1 == IF ok THEN 0 ELSE -1
                  d   == IF ok THEN [fdt EXCEPT !.locks = @ \cup {"flock"}] ELSE fdt
                  h   == [Access(hist, "flock") EXCEPT
                            !.locked = IF ok THEN @ \cup {"flock"} ELSE @]
              IN IF HasBit(loc.lock_type, LCK_FCNTL)
                 THEN /\ loc' = [loc EXCEPT !.rc1 = rc1]
                      /\ fdt' = d /\ hist' = h /\ pc' = "lock2"
                      /\ UNCHANGED cred
                 ELSE LockDone(rc1, loc, d, h, oks)
       ELSE /\ loc' = [loc EXCEPT !.rc1 = 0] /\ pc' = "lock2"
            /\ UNCHANGED <<cred, fdt, hist>>
    /\ UNCHANGED <<file, wr, call, result,
                   payload_chain_needs_cleaning>>

\* filelock, first half (lines 565-582): LCK_NOLOCK returns at once; flock
\* waits for as long as the other process holds its exclusive flock
RP_Lock(oks) ==
    /\ pc = "lock"
    /\ IF HasBit(loc.lock_type, LCK_NOLOCK)
       THEN LockDone(0, loc, fdt, hist, oks)
       ELSE IF HasBit(loc.lock_type, LCK_FLOCK)
       THEN \E ok \in oks :
              /\ ok => "flock" \notin wr.holds
              /\ LET rc1 == IF ok THEN 0 ELSE -1
                     d   == IF ok THEN [fdt EXCEPT !.locks = @ \cup {"flock"}] ELSE fdt
                     h   == [Access(hist, "flock") EXCEPT
                               !.locked = IF ok THEN @ \cup {"flock"} ELSE @]
                 IN IF HasBit(loc.lock_type, LCK_FCNTL)
                    THEN /\ loc' = [loc EXCEPT !.rc1 = rc1]
                         /\ fdt' = d /\ hist' = h /\ pc' = "lock2"
                         /\ UNCHANGED cred
                    ELSE LockDone(rc1, loc, d, h, oks)
       ELSE /\ loc' = [loc EXCEPT !.rc1 = 0] /\ pc' = "lock2"
            /\ UNCHANGED <<cred, fdt, hist>>
    /\ UNCHANGED <<file, wr, call, result,
                   payload_chain_needs_cleaning>>

\* RP_Lock2 with F_UNLCK for F_RDLCK: fcntl returns at once and no lock is
\* held
RP_Lock2_Unlocked(oks) ==
    /\ pc = "lock2"
    /\ IF HasBit(loc.lock_type, LCK_FCNTL)
       THEN \E ok \in oks :
              LET rc2 == IF ok THEN 0 ELSE -1
                  h   == Access(hist, "fcntl")
              IN LockDone(IF loc.rc1 # 0 \/ rc2 # 0 THEN -1 ELSE 0,
                          loc, fdt, h, oks)
       ELSE LockDone(IF loc.rc1 # 0 THEN -1 ELSE 0, loc, fdt, hist, oks)
    /\ UNCHANGED <<file, wr, call, result,
                   payload_chain_needs_cleaning>>

\* filelock, second half (lines 584-597): fcntl(F_SETLKW) waits for as long
\* as the other process holds its exclusive fcntl lock
RP_Lock2(oks) ==
    /\ pc = "lock2"
    /\ IF HasBit(loc.lock_type, LCK_FCNTL)
       THEN \E ok \in oks :
              /\ ok => "fcntl" \notin wr.holds
              /\ LET rc2 == IF ok THEN 0 ELSE -1
                     d   == IF ok THEN [fdt EXCEPT !.locks = @ \cup {"fcntl"}] ELSE fdt
                     h   == [Access(hist, "fcntl") EXCEPT
                               !.locked = IF ok THEN @ \cup {"fcntl"} ELSE @]
                 IN LockDone(IF loc.rc1 # 0 \/ rc2 # 0 THEN -1 ELSE 0,
                             loc, d, h, oks)
       ELSE LockDone(IF loc.rc1 # 0 THEN -1 ELSE 0, loc, fdt, hist, oks)
    /\ UNCHANGED <<file, wr, call, result,
                   payload_chain_needs_cleaning>>

\* lines 648-674: the first snapshot, the check of owner and mode, malloc;
\* a failure closes the descriptor, and RP_Finish does the rest
RP_Fstat(oks) ==
    /\ pc = "fstat"
    /\ \E o \in Outcomes(oks, {"fstat", "malloc"}) :
         LET st1 == fstat(file)
             h   == Access(hist, "fstat")
         IN IF o = "fstat"
            THEN /\ fdt' = close(fdt)
                 /\ loc' = Pending(loc, -1) /\ hist' = Exit(h, "fstat1")
                 /\ pc' = "closed" /\ UNCHANGED cred
            ELSE IF Unsafe(st1, loc.uid)
            THEN /\ fdt' = close(fdt)
                 /\ loc' = Pending(loc, -3) /\ hist' = Exit(Snap(h), "perm")
                 /\ pc' = "closed" /\ UNCHANGED cred
            ELSE IF o = "malloc"
            THEN /\ fdt' = close(fdt)
                 /\ loc' = Pending(loc, -4) /\ hist' = Exit(Snap(h), "malloc")
                 /\ pc' = "closed" /\ UNCHANGED cred
            ELSE /\ loc' = [loc EXCEPT !.sptr1 = st1, !.cap = st1.st_size + 1,
                                       !.i = 0]
                 /\ hist' = Snap(h) /\ pc' = "read"
                 /\ UNCHANGED <<cred, fdt>>
    /\ UNCHANGED <<file, wr, call, result,
                   payload_chain_needs_cleaning>>

\* what read(fd, buf, count) may return at offset off of data: every byte
\* that is there, up to count; with FALSE among oks also an error (-1) or a
\* read that is one byte short
ReadResults(data, off, count, oks) ==
    LET avail == IF Len(data) > off THEN Len(data) - off ELSE 0
        full  == Min(count, avail)
    IN {full} \cup (IF FALSE \in oks THEN {-1} \cup ((full - 1)..(full - 1) \cap Nat)
                                      ELSE {})

\* line 678
RP_Read(oks) ==
    /\ pc = "read"
    /\ \E n \in ReadResults(file.data, fdt.offset, loc.sptr1.st_size, oks) :
         /\ loc' = [loc EXCEPT
                      !.size = n,
                      !.buf = IF n > 0
                              THEN SubSeq(file.data, fdt.offset + 1, fdt.offset + n)
                              ELSE <<>>]
         /\ fdt' = [fdt EXCEPT !.offset = IF n > 0 THEN @ + n ELSE @]
    /\ hist' = [Access(hist, "read") EXCEPT !.nread = @ + 1]
    /\ pc' = "stat"
    /\ UNCHANGED <<cred, file, wr, call, result,
                   payload_chain_needs_cleaning>>

\* line 713, run when the loop is left with rc set in l:
\* filelock(fd,lock_type,LCK_UNLOCK), first half (lines 565-582): the
\* return for LCK_NOLOCK, or flock(fd, LOCK_UN); with LCK_FCNTL the fcntl
\* call is a step of its own (RP_Unlock2), the other process running in
\* between.  The return value is ignored.
LeaveLoop(l, h, oks) ==
    /\ LET ps == Prims(l.lock_type)
       IN /\ IF "flock" \in ps
             THEN \E ok \in oks : fdt' = unlock(fdt, "flock", ok)
             ELSE fdt' = fdt
          /\ pc' = IF "fcntl" \in ps THEN "unlock2" ELSE "close"
    /\ loc' = Pending(l, l.rc) /\ hist' = h
    /\ UNCHANGED cred

\* the retry without the swap of the snapshots: the next round reads and
\* compares with the first snapshot
RP_Stat_NoSwap(oks) ==
    /\ pc = "stat"
    /\ \E o \in Outcomes(oks, {"fstat", "realloc"}) :
         LET s2 == fstat(file)
             h  == Access(hist, "fstat")
         IN IF o = "fstat"
            THEN LeaveLoop([loc EXCEPT !.rc = -1], Exit(h, "fstat"), oks)
            ELSE IF SameStat(s2, loc.sptr1)
            THEN LeaveLoop([loc EXCEPT !.sptr2 = s2,
                              !.rc = IF loc.size = loc.sptr1.st_size THEN 0 ELSE -1],
                           Exit(Snap(h), "equal"), oks)
            ELSE IF loc.i < tries - 1
            THEN IF o = "realloc"
                 THEN LeaveLoop([loc EXCEPT !.sptr2 = s2, !.rc = -4],
                                Exit(Snap(h), "realloc"), oks)
                 ELSE /\ loc' = [loc EXCEPT !.cap = s2.st_size + 1, !.buf = <<>>,
                                 !.size = 0, !.sptr2 = NoStat]
                      /\ hist' = Snap(h) /\ pc' = "sleep"
                      /\ UNCHANGED <<cred, fdt>>
            ELSE LeaveLoop([loc EXCEPT !.sptr2 = s2, !.rc = -5, !.i = @ + 1],
                           Exit(Snap(h), "exhausted"), oks)
    /\ UNCHANGED <<file, wr, call, result,
                   payload_chain_needs_cleaning>>

\* the retry with the swap but without realloc: the buffer keeps the
\* capacity it had
RP_Stat_NoRealloc(oks) ==
    /\ pc = "stat"
    /\ \E o \in Outcomes(oks, {"fstat", "realloc"}) :
         LET s2 == fstat(file)
             h  == Access(hist, "fstat")
         IN IF o = "fstat"
            THEN LeaveLoop([loc EXCEPT !.rc = -1], Exit(h, "fstat"), oks)
            ELSE IF SameStat(s2, loc.sptr1)
            THEN LeaveLoop([loc EXCEPT !.sptr2 = s2,
                              !.rc = IF loc.size = loc.sptr1.st_size THEN 0 ELSE -1],
                           Exit(Snap(h), "equal"), oks)
            ELSE IF loc.i < tries - 1
            THEN IF o = "realloc"
                 THEN LeaveLoop([loc EXCEPT !.sptr2 = s2, !.rc = -4],
                                Exit(Snap(h), "realloc"), oks)
                 ELSE /\ loc' = [loc EXCEPT !.buf = <<>>, !.size = 0,
                                 !.sptr1 = s2, !.sptr2 = NoStat]
                      /\ hist' = Snap(h) /\ pc' = "sleep"
                      /\ UNCHANGED <<cred, fdt>>
            ELSE LeaveLoop([loc EXCEPT !.sptr2 = s2, !.rc = -5, !.i = @ + 1],
                           Exit(Snap(h), "exhausted"), oks)
    /\ UNCHANGED <<file, wr, call, result,
                   payload_chain_needs_cleaning>>

\* lines 680-702: the snapshot after the read, the comparison, and either
\* the end of the loop, with the unlock that follows it, or realloc and the
\* swap of the snapshots for the next round.
\* After the swap *sptr2, size and the bytes of the buffer are overwritten by
\* the next read and fstat before anything reads them: they are cleared here.
RP_Stat(oks) ==
    /\ pc = "stat"
    /\ \E o \in Outcomes(oks, {"fstat", "realloc"}) :
         LET s2 == fstat(file)
             h  == Access(hist, "fstat")
         IN IF o = "fstat"
            THEN LeaveLoop([loc EXCEPT !.rc = -1], Exit(h, "fstat"), oks)
            ELSE IF SameStat(s2, loc.sptr1)
            THEN LeaveLoop([loc EXCEPT !.sptr2 = s2,
                              !.rc = IF loc.size = loc.sptr1.st_size THEN 0 ELSE -1],
                           Exit(Snap(h), "equal"), oks)
            ELSE IF loc.i < tries - 1
            THEN IF o = "realloc"
                 THEN LeaveLoop([loc EXCEPT !.sptr2 = s2, !.rc = -4],
                                Exit(Snap(h), "realloc"), oks)
                 ELSE /\ loc' = [loc EXCEPT !.cap = s2.st_size + 1, !.buf = <<>>,
                                 !.size = 0, !.sptr1 = s2, !.sptr2 = NoStat]
                      /\ hist' = Snap(h) /\ pc' = "sleep"
                      /\ UNCHANGED <<cred, fdt>>
            ELSE LeaveLoop([loc EXCEPT !.sptr2 = s2, !.rc = -5, !.i = @ + 1],
                           Exit(Snap(h), "exhausted"), oks)
    /\ UNCHANGED <<file, wr, call, result,
                   payload_chain_needs_cleaning>>

\* lines 703-710 and the i++ of line 676: usleep(500), during which the
\* other process runs, then lseek to the start for the next read
RP_Lseek(oks) ==
    /\ pc = "sleep"
    /\ \E o \in Outcomes(oks, {"lseek"}) :
         IF o = "lseek"
         THEN LeaveLoop([loc EXCEPT !.rc = -1], Exit(hist, "lseek"), oks)
         ELSE /\ loc' = [loc EXCEPT !.i = @ + 1]
              /\ fdt' = [fdt EXCEPT !.offset = 0]
              /\ pc' = "read"
              /\ UNCHANGED <<cred, hist>>
    /\ UNCHANGED <<file, wr, call, result,
                   payload_chain_needs_cleaning>>

\* filelock(fd,lock_type,LCK_UNLOCK) of line 713, second half (lines
\* 584-597): fcntl(fd, F_SETLKW, F_UNLCK), which never waits
RP_Unlock2(oks) ==
    /\ pc = "unlock2"
    /\ \E ok \in oks : fdt' = unlock(fdt, "fcntl", ok)
    /\ pc' = "close"
    /\ UNCHANGED <<cred, loc, file, wr, hist, call, result,
                   payload_chain_needs_cleaning>>

\* line 714
RP_Close ==
    /\ pc = "close"
    /\ fdt' = close(fdt)
    /\ pc' = "closed"
    /\ UNCHANGED <<cred, loc, file, wr, hist, call, result,
                   payload_chain_needs_cleaning>>

\* the end of read_proxy with *proxy=buf before the test of rc: the caller
\* is handed the buffer on every return
RP_Finish_HandOverFirst(oks) ==
    /\ pc = "closed"
    /\ IF loc.rc # 0
       THEN Return(loc.rc, [loc EXCEPT !.cap = -1, !.buf = <<>>, !.proxy = loc.buf],
                   hist, oks)
       ELSE Return(0, [loc EXCEPT !.proxy = SubSeq(loc.buf, 1, loc.size)],
                   hist, oks)
    /\ UNCHANGED <<file, fdt, wr, call, result,
                   payload_chain_needs_cleaning>>

\* raise_priv and the return, after the descriptor was closed: lines 716-725
\* at the end of the loop (the buffer is freed, or terminated and handed
\* over), lines 643-644, 652-653, 663-664 and 670-671 after a failure
\* before it (there is no buffer then)
RP_Finish(oks) ==
    /\ pc = "closed"
    /\ IF loc.rc # 0
       THEN Return(loc.rc, [loc EXCEPT !.cap = -1, !.buf = <<>>], hist, oks)
       ELSE Return(0, [loc EXCEPT !.proxy = SubSeq(loc.buf, 1, loc.size)],
                   hist, oks)
    /\ UNCHANGED <<file, fdt, wr, call, result,
                   payload_chain_needs_cleaning>>

(***************************************************************************)
(* The other process: it rewrites the file, and takes the exclusive lock   *)
(* of its discipline (wr.policy) around its writes, if it has one.         *)
(***************************************************************************)
\* the other process is followed while read_proxy runs
Running == pc \in {"open", "lock", "lock2", "fstat", "read", "stat", "sleep",
                   "unlock2", "close", "closed"}

\* flock(LOCK_EX) or fcntl(F_WRLCK) of the other process: granted when
\* read_proxy holds no lock of that primitive
W_Lock ==
    /\ Running
    /\ \E p \in Prims(wr.policy) \ wr.holds :
         /\ p \notin fdt.locks
         /\ wr' = [wr EXCEPT !.holds = @ \cup {p}]
    /\ UNCHANGED <<cred, pc, loc, file, fdt, hist, call, result,
                   payload_chain_needs_cleaning>>

W_Unlock ==
    /\ Running
    /\ \E p \in wr.holds : wr' = [wr EXCEPT !.holds = @ \ {p}]
    /\ UNCHANGED <<cred, pc, loc, file, fdt, hist, call, result,
                   payload_chain_needs_cleaning>>

\* one write of new content: mtime and ctime become the current time, which
\* is the second of the last change or the next one
W_Write ==
    /\ Running
    /\ Prims(wr.policy) \subseteq wr.holds
    /\ \E d \in Contents, t \in {file.ctime, file.ctime + 1} :
         /\ t <= MaxTime
         /\ d # file.data \/ t # file.ctime
         /\ file' = [file EXCEPT !.data = d, !.mtime = t, !.ctime = t]
         /\ hist' = IF pc \in {"read", "stat", "sleep"}
                    THEN IF hist.mods = 0
                         THEN [hist EXCEPT !.mods = 1,
                                 !.win = (loc.i = 0 /\ pc # "sleep"),
                                 !.vis = ~SameStat(fstat(file'), fstat(file))]
                         ELSE [hist EXCEPT !.mods = 2, !.win = FALSE, !.vis = FALSE]
                    ELSE hist
    /\ UNCHANGED <<cred, pc, loc, fdt, wr, call, result,
                   payload_chain_needs_cleaning>>

NextRead(oks) ==
    \/ RP_Call(oks) \/ RP_Open(oks) \/ RP_Lock(oks) \/ RP_Lock2(oks)
    \/ RP_Fstat(oks) \/ RP_Read(oks) \/ RP_Stat(oks) \/ RP_Lseek(oks)
    \/ RP_Unlock2(oks) \/ RP_Close \/ RP_Finish(oks)
    \/ W_Lock \/ W_Unlock \/ W_Write

\* read_proxy in any environment: calls may fail, the saved ids are any
Spec == InitReadOf(Creds) /\ [][NextRead(BOOLEAN)]_vars
\* read_proxy where no call fails but for the state of the file and the
\* locks, in a set-id program (credentials as exec leaves them)
SpecNominal == InitReadOf(ExecCreds) /\ [][NextRead({TRUE})]_vars
\* read_proxy where no call fails but for the state of the file and the
\* locks and by the permission rule of the kernel, the saved ids being any
SpecSavedIds == InitReadOf(Creds) /\ [][NextRead({TRUE})]_vars

\* the steps of read_proxy, without those of the other process
ReadSteps(oks) ==
    \/ RP_Call(oks) \/ RP_Open(oks) \/ RP_Lock(oks) \/ RP_Lock2(oks)
    \/ RP_Fstat(oks) \/ RP_Read(oks) \/ RP_Stat(oks) \/ RP_Lseek(oks)
    \/ RP_Unlock2(oks) \/ RP_Close \/ RP_Finish(oks)

\* credentials of a program that is not set-id: nothing to drop
PlainCreds == {c \in ExecCreds : c.euid = c.ruid /\ c.egid = c.rgid}

\* read_proxy where no call fails and the process in read_proxy is
\* scheduled: a step of it that stays possible is taken.  Nothing is
\* assumed of the other process.
SpecWait ==
    /\ InitReadOf(PlainCreds)
    /\ [][NextRead({TRUE})]_vars
    /\ WF_vars(ReadSteps({TRUE}))


(***************************************************************************)
(* Pointers: NULL, or a pointer to a value                                 *)
(***************************************************************************)
NULL == <<>>
Ptr(x) == <<x>>
Deref(p) == p[1]

(***************************************************************************)
(* psp_verify_proxy_signature                                              *)
(*                                                                         *)
(* A certificate carries its public key (NULL when X509_get_pubkey cannot  *)
(* extract one), the key pair that signed it and whether the signature is  *)
(* well formed.  call is the pair of arguments, result what the function   *)
(* returned, logged, and how many key references it took and freed.        *)
(***************************************************************************)
Keys == 1..MaxKey
Certs == [pubkey : {NULL} \cup {Ptr(k) : k \in Keys}, signer : Keys,
          sig : {"good", "bad"}]

\* X509_get_pubkey: a new reference to the key of the certificate, or NULL
X509_get_pubkey(x) == x.pubkey

\* X509_verify: 1 when the signature of x verifies under pkey, 0 when it
\* does not, -1 when it cannot be checked at all
X509_verify(x, pkey) ==
    IF x.sig # "good" THEN -1
    ELSE IF x.signer = pkey THEN 1 ELSE 0

\* an error of X509_verify taken for success: result==0 for result!=1
psp_verify_proxy_signature_ErrorIsSuccess(payload, pilot) ==
    IF pilot = NULL \/ payload = NULL
    THEN [rc |-> -1, log |-> "unset", got |-> 0, freed |-> 0]
    ELSE LET pilot_key == X509_get_pubkey(Deref(pilot))
         IN IF pilot_key = NULL
            THEN [rc |-> -1, log |-> "no public key", got |-> 0, freed |-> 0]
            ELSE LET res == X509_verify(Deref(payload), Deref(pilot_key))
                 IN IF res = 0
                    THEN [rc |-> -1, log |-> "not signed", got |-> 1, freed |-> 1]
                    ELSE [rc |-> 0, log |-> "", got |-> 1, freed |-> 1]

psp_verify_proxy_signature(payload, pilot) ==
    IF pilot = NULL \/ payload = NULL
    THEN [rc |-> -1, log |-> "unset", got |-> 0, freed |-> 0]
    ELSE LET pilot_key == X509_get_pubkey(Deref(pilot))
         IN IF pilot_key = NULL
            THEN [rc |-> -1, log |-> "no public key", got |-> 0, freed |-> 0]
            ELSE LET res == X509_verify(Deref(payload), Deref(pilot_key))
                 IN \* EVP_PKEY_free comes before the test of the result
                    IF res # 1
                    THEN [rc |-> -1, log |-> "not signed", got |-> 1, freed |-> 1]
                    ELSE [rc |-> 0, log |-> "", got |-> 1, freed |-> 1]

IdleRest ==
    /\ payload_chain_needs_cleaning = 0
    /\ cred = IdleCred /\ loc = IdleLoc /\ file = IdleFile /\ fdt = IdleFdt
    /\ wr = IdleWr /\ hist = IdleHist

InitVerify ==
    /\ pc = "verify"
    /\ call \in [payload : {NULL} \cup {Ptr(x) : x \in Certs},
                 pilot   : {NULL} \cup {Ptr(x) : x \in Certs}]
    /\ result = None
    /\ IdleRest

Verify ==
    /\ pc = "verify"
    /\ result' = psp_verify_proxy_signature(call.payload, call.pilot)
    /\ pc' = "verified"
    /\ UNCHANGED <<cred, loc, file, fdt, wr, hist, call,
                   payload_chain_needs_cleaning>>

SpecVerify == InitVerify /\ [][Verify]_vars

(***************************************************************************)
(* pem_string_to_x509_chain                                                *)
(*                                                                         *)
(* A PEM string is a sequence of blocks, each with the name of its BEGIN   *)
(* line and a body that decodes (to the object id) or does not.  call is   *)
(* the string (or NULL); result is the return value and *certstack.        *)
(***************************************************************************)
CertIds == 1..2
PemNames == {"CERTIFICATE", "X509 CRL", "RSA PRIVATE KEY", "OTHER"}
Blocks ==
    {[name |-> "CERTIFICATE", body |-> b] : b \in {Ptr(c) : c \in CertIds} \cup {NULL}}
    \cup {[name |-> n, body |-> Ptr(1)] : n \in PemNames \ {"CERTIFICATE"}}
PemStrings == UNION {[1..n -> Blocks] : n \in 0..MaxCerts}

NewInfo == [x509 |-> NULL, crl |-> NULL, x_pkey |-> NULL]
\* the field of X509_INFO a block of that name is decoded into
Slot(name) == CASE name = "CERTIFICATE"     -> "x509"
                [] name = "X509 CRL"        -> "crl"
                [] name = "RSA PRIVATE KEY" -> "x_pkey"
                [] OTHER                    -> "none"

\* PEM_X509_INFO_read_bio from block k on, with the X509_INFO records
\* completed so far (ret) and the one being filled (xi): a block goes into
\* the field of its kind of xi, after a new xi is started when that field is
\* taken; blocks of other names are passed over; a body that does not decode
\* makes the whole call return NULL
RECURSIVE ReadInfo(_, _, _, _)
ReadInfo(str, k, ret, xi) ==
    IF k > Len(str)
    THEN Ptr(IF xi # NewInfo THEN Append(ret, xi) ELSE ret)
    ELSE LET b == str[k]
             f == Slot(b.name)
         IN IF f = "none" THEN ReadInfo(str, k + 1, ret, xi)
            ELSE IF xi[f] # NULL THEN ReadInfo(str, k, Append(ret, xi), NewInfo)
            ELSE IF b.body = NULL THEN NULL
            ELSE ReadInfo(str, k + 1, ret, [xi EXCEPT ![f] = b.body])

PEM_X509_INFO_read_bio(str) == ReadInfo(str, 1, <<>>, NewInfo)

\* the loop of lines 456-463: the X509_INFO records are taken from the
\* front, the certificate of each that has one is pushed on mystack; push
\* holds the answers of sk_X509_push, one per record: a push that fails
\* adds nothing, and as its result is not looked at (line 459) the loop
\* goes on without that certificate
RECURSIVE ShiftAll(_, _, _)
ShiftAll(sk, mystack, push) ==
    IF sk = <<>> THEN mystack
    ELSE LET xi == Head(sk)
         IN ShiftAll(Tail(sk),
                     IF xi.x509 # NULL /\ Head(push)
                     THEN Append(mystack, xi.x509) ELSE mystack,
                     Tail(push))

\* the answers sk_X509_push may give while certstring is parsed, one per
\* block (there are no more X509_INFO records than blocks)
PushAnswers(certstring, oks) ==
    [1..(IF certstring = NULL THEN 0 ELSE Len(Deref(certstring))) -> oks]

\* certstack is the chain *certstack held before the call; ok: the two
\* allocations of lines 442-443 succeed; push: the answers of sk_X509_push
pem_string_to_x509_chain(certstack, certstring, ok, push) ==
    IF certstring = NULL THEN [rc |-> -1, certstack |-> certstack]
    ELSE IF ~ok THEN [rc |-> -1, certstack |-> certstack]
    ELSE LET sk == PEM_X509_INFO_read_bio(Deref(certstring))
         IN IF sk = NULL THEN [rc |-> 1, certstack |-> certstack]
            ELSE LET mystack == ShiftAll(Deref(sk), <<>>, push)
                 IN IF Len(mystack) = 0
                    THEN [rc |-> 1, certstack |-> certstack]
                    ELSE [rc |-> 0, certstack |-> Ptr(mystack)]

InitPem ==
    /\ pc = "parse"
    /\ call \in {NULL} \cup {Ptr(str) : str \in PemStrings}
    /\ result = [rc |-> 0, certstack |-> NULL]
    /\ IdleRest

PemParse(oks) ==
    /\ pc = "parse"
    /\ \E ok \in oks, push \in PushAnswers(call, oks) :
         result' = pem_string_to_x509_chain(result.certstack, call, ok, push)
    /\ pc' = "parsed"
    /\ UNCHANGED <<cred, loc, file, fdt, wr, hist, call,
                   payload_chain_needs_cleaning>>

\* the parser where no allocation and no push fails
SpecPem == InitPem /\ [][PemParse({TRUE})]_vars

(***************************************************************************)
(* psp_proxy_is_rfc and psp_proxy_is_limited                               *)
(*                                                                         *)
(* A certificate is its sequence of extensions; an extension has an object *)
(* (an OID, or NULL) and a value, which for the proxy certificate          *)
(* information either cannot be decoded (NULL) or decodes to a record      *)
(* with a proxyPolicy (or NULL) holding a policyLanguage (or NULL).        *)
(***************************************************************************)
OBJ_BUF_SIZE      == 80
OID_RFC_PROXY     == "1.3.6.1.5.5.7.1.14"
OID_LIMITED_PROXY == "1.3.6.1.4.1.3536.1.1.1.9"

\* ASN1_OBJECTs: an OID as its sequence of arcs
Obj_proxyCertInfo == <<1, 3, 6, 1, 5, 5, 7, 1, 14>>
Obj_limited       == <<1, 3, 6, 1, 4, 1, 3536, 1, 1, 1, 9>>
Obj_limitedSub    == <<1, 3, 6, 1, 4, 1, 3536, 1, 1, 1, 9, 1>>
Obj_inheritAll    == <<1, 3, 6, 1, 5, 5, 7, 21, 1>>
Obj_keyUsage      == <<2, 5, 29, 15>>
Objects == {Obj_proxyCertInfo, Obj_limited, Obj_limitedSub, Obj_inheritAll,
            Obj_keyUsage}

PolicyLanguages == {Obj_limited, Obj_limitedSub, Obj_inheritAll, Obj_proxyCertInfo}
PciValues ==
    {NULL, Ptr([proxyPolicy |-> NULL])}
    \cup {Ptr([proxyPolicy |-> Ptr([policyLanguage |-> l])]) :
             l \in {NULL} \cup {Ptr(o) : o \in PolicyLanguages}}
Extensions ==
    {[object |-> Ptr(Obj_proxyCertInfo), value |-> v] : v \in PciValues}
    \cup {[object |-> o, value |-> NULL] :
             o \in {NULL, Ptr(Obj_keyUsage), Ptr(Obj_limited)}}
Proxies == UNION {[1..n -> Extensions] : n \in 0..MaxCerts}

\* the arcs from the k-th on in decimal, with dots between them
RECURSIVE Dotted(_, _)
Dotted(arcs, k) ==
    IF k > Len(arcs) THEN ""
    ELSE IF k = Len(arcs) THEN ToString(arcs[k])
    ELSE ToString(arcs[k]) \o "." \o Dotted(arcs, k + 1)

\* OBJ_obj2txt(buffer, OBJ_BUF_SIZE, obj, 1): the numerical form of the
\* OID, cut to what the buffer holds before its terminating 0
OBJ_obj2txt(obj) ==
    LET txt == Dotted(obj, 1)
    IN IF Len(txt) > OBJ_BUF_SIZE - 1 THEN SubSeq(txt, 1, OBJ_BUF_SIZE - 1) ELSE txt

\* OBJ_txt2obj(txt, 0): the object of an OID given in numerical form
OBJ_txt2obj(txt) == CHOOSE o \in Objects : Dotted(o, 1) = txt

\* OBJ_obj2nid: the library's number for the OID, "undef" for NULL and for
\* an OID it has no number for
OBJ_obj2nid(obj) ==
    IF obj = NULL THEN "undef"
    ELSE CASE Deref(obj) = Obj_proxyCertInfo -> "proxyCertInfo"
           [] Deref(obj) = Obj_inheritAll    -> "id-ppl-inheritAll"
           [] Deref(obj) = Obj_keyUsage      -> "keyUsage"
           [] OTHER                          -> "undef"

\* X509_get_ext_d2i(x, nid, &crit, NULL): the decoded value of the one
\* extension with that nid; NULL when there is none, more than one, or when
\* its value does not decode
X509_get_ext_d2i(x, nid) ==
    LET found == {i \in 1..Len(x) : OBJ_obj2nid(x[i].object) = nid}
    IN IF Cardinality(found) # 1 THEN NULL
       ELSE x[CHOOSE i \in found : TRUE].value

RECURSIVE IsRfcFrom(_, _)
IsRfcFrom(proxy, i) ==
    IF i > Len(proxy) THEN 0
    ELSE IF proxy[i].object # NULL
            /\ OBJ_obj2txt(Deref(proxy[i].object)) = OID_RFC_PROXY
    THEN 1
    ELSE IsRfcFrom(proxy, i + 1)

psp_proxy_is_rfc(proxy) == IsRfcFrom(proxy, 1)

\* without the comparison with OID_LIMITED_PROXY: any policy language will do
psp_proxy_is_limited_AnyPolicy(proxy) ==
    LET nid == OBJ_obj2nid(Ptr(OBJ_txt2obj(OID_RFC_PROXY)))
        pci == X509_get_ext_d2i(proxy, nid)
    IN IF pci # NULL
       THEN IF Deref(pci).proxyPolicy # NULL
               /\ Deref(Deref(pci).proxyPolicy).policyLanguage # NULL
            THEN 1
            ELSE 0
       ELSE 0

psp_proxy_is_limited(proxy) ==
    LET nid == OBJ_obj2nid(Ptr(OBJ_txt2obj(OID_RFC_PROXY)))
        pci == X509_get_ext_d2i(proxy, nid)
    IN IF pci # NULL
       THEN IF Deref(pci).proxyPolicy # NULL
               /\ Deref(Deref(pci).proxyPolicy).policyLanguage # NULL
            THEN LET policy_lang == Deref(Deref(pci).proxyPolicy).policyLanguage
                 IN IF OBJ_obj2txt(Deref(policy_lang)) = OID_LIMITED_PROXY
                    THEN 1 ELSE 0
            ELSE 0
       ELSE 0

InitClassify ==
    /\ pc = "classify"
    /\ call \in Proxies
    /\ result = None
    /\ IdleRest

Classify ==
    /\ pc = "classify"
    /\ result' = [rfc |-> psp_proxy_is_rfc(call), limited |-> psp_proxy_is_limited(call)]
    /\ pc' = "classified"
    /\ UNCHANGED <<cred, loc, file, fdt, wr, hist, call,
                   payload_chain_needs_cleaning>>

SpecClassify == InitClassify /\ [][Classify]_vars

(***************************************************************************)
(* filelock called on its own                                              *)
(*                                                                         *)
(* call holds lock_type and action, fdt the descriptor with the locks the  *)
(* process holds through it; result is the return value and the locking    *)
(* calls made.  No other process holds a lock: no call waits.              *)
(***************************************************************************)
LCK_READ   == 1
LCK_WRITE  == 2
LCK_UNLOCK == 4
LockActions == {LCK_READ, LCK_WRITE, LCK_UNLOCK}

\* the locks held through d after primitive p was called for action,
\* successfully or not
AfterLock(d, p, action, ok) ==
    IF ~ok THEN d
    ELSE IF action = LCK_UNLOCK THEN [d EXCEPT !.locks = @ \ {p}]
    ELSE [d EXCEPT !.locks = @ \cup {p}]

LockCall(p, action, ok) == [fn |-> p, action |-> action, rc |-> IF ok THEN 0 ELSE -1]

\* filelock with lock_type==LCK_NOLOCK for lock_type & LCK_NOLOCK
filelock_flock_NoLockAlone(d, lock_type, action, ok1) ==
    IF lock_type = LCK_NOLOCK
    THEN [fdt |-> d, rc |-> 0, calls |-> <<>>, returned |-> TRUE]
    ELSE IF HasBit(lock_type, LCK_FLOCK)
    THEN IF action \notin LockActions
         THEN [fdt |-> d, rc |-> -1, calls |-> <<>>, returned |-> TRUE]
         ELSE [fdt |-> AfterLock(d, "flock", action, ok1),
               rc |-> IF ok1 THEN 0 ELSE -1,
               calls |-> <<LockCall("flock", action, ok1)>>,
               returned |-> FALSE]
    ELSE [fdt |-> d, rc |-> 0, calls |-> <<>>, returned |-> FALSE]

\* filelock(fd, lock_type, action), first half (lines 565-582): the return
\* of 0 for LCK_NOLOCK, or the flock call with answer ok1; rc is rc1, or
\* the value returned where `returned` says that filelock returned here
filelock_flock(d, lock_type, action, ok1) ==
    IF HasBit(lock_type, LCK_NOLOCK)
    THEN [fdt |-> d, rc |-> 0, calls |-> <<>>, returned |-> TRUE]
    ELSE IF HasBit(lock_type, LCK_FLOCK)
    THEN IF action \notin LockActions
         THEN [fdt |-> d, rc |-> -1, calls |-> <<>>, returned |-> TRUE]
         ELSE [fdt |-> AfterLock(d, "flock", action, ok1),
               rc |-> IF ok1 THEN 0 ELSE -1,
               calls |-> <<LockCall("flock", action, ok1)>>,
               returned |-> FALSE]
    ELSE [fdt |-> d, rc |-> 0, calls |-> <<>>, returned |-> FALSE]

\* filelock, second half (lines 584-597), after a first half that left rc1
\* and the calls c1: the fcntl call with answer ok2, and the return value
filelock_fcntl(d, lock_type, action, rc1, c1, ok2) ==
    IF HasBit(lock_type, LCK_FCNTL)
    THEN IF action \notin LockActions
         THEN [fdt |-> d, rc |-> -1, calls |-> c1]
         ELSE [fdt |-> AfterLock(d, "fcntl", action, ok2),
               rc |-> IF rc1 # 0 \/ ~ok2 THEN -1 ELSE 0,
               calls |-> Append(c1, LockCall("fcntl", action, ok2))]
    ELSE [fdt |-> d, rc |-> IF rc1 # 0 THEN -1 ELSE 0, calls |-> c1]

InitLock ==
    /\ payload_chain_needs_cleaning = 0
    /\ pc = "filelock"
    /\ call \in [lock_type : 0..(LCK_NOLOCK + LCK_FCNTL + LCK_FLOCK),
                 action : LockActions \cup {0, LCK_READ + LCK_WRITE},
                 locks : SUBSET {"flock", "fcntl"}]
    /\ fdt = [fd |-> 3, offset |-> 0, locks |-> call.locks]
    /\ result = None
    /\ cred = IdleCred /\ loc = IdleLoc /\ file = IdleFile
    /\ wr = IdleWr /\ hist = IdleHist

\* filelock up to and with its flock call; result holds rc1 and the calls
\* made until filelock returns
FL_Call(oks) ==
    /\ pc = "filelock"
    /\ \E r \in {filelock_flock(fdt, call.lock_type, call.action, ok1) :
                    ok1 \in oks} :
          /\ pc' = IF r.returned THEN "locked" ELSE "filelock2"
          /\ fdt' = r.fdt
          /\ result' = [rc |-> r.rc, calls |-> r.calls]
    /\ UNCHANGED <<cred, loc, file, wr, hist, call,
                   payload_chain_needs_cleaning>>

\* filelock from its fcntl call to its return
FL_Call2(oks) ==
    /\ pc = "filelock2"
    /\ pc' = "locked"
    /\ \E r \in {filelock_fcntl(fdt, call.lock_type, call.action, result.rc,
                                 result.calls, ok2) : ok2 \in oks} :
          /\ fdt' = r.fdt
          /\ result' = [rc |-> r.rc, calls |-> r.calls]
    /\ UNCHANGED <<cred, loc, file, wr, hist, call,
                   payload_chain_needs_cleaning>>

SpecLock == InitLock /\ [][FL_Call(BOOLEAN) \/ FL_Call2(BOOLEAN)]_vars

(***************************************************************************)
(* psp_get_pilot_proxy                                                     *)
(*                                                                         *)
(* call holds the value of X509_USER_PROXY (NULL when unset) and the       *)
(* lock_type argument; result the return value and the caller's *certstack.*)
(* read_proxy runs as above; the bytes it returns are read as PEM blocks.  *)
(***************************************************************************)
LockTypeT == {"LOCK_NOLOCK", "LOCK_FCNTL", "LOCK_FLOCK", "other"}

\* the switch of lines 122-133: NULL for a lock_type without a case
lock_flags(lock_type) ==
    CASE lock_type = "LOCK_NOLOCK" -> Ptr(LCK_NOLOCK)
      [] lock_type = "LOCK_FCNTL"  -> Ptr(LCK_FCNTL)
      [] lock_type = "LOCK_FLOCK"  -> Ptr(LCK_FLOCK)
      [] OTHER                     -> NULL

\* the PEM blocks a file content stands for: byte 1 is a certificate, any
\* other byte a CRL
PemOf(data) ==
    [i \in 1..Len(data) |->
        IF data[i] = 1 THEN [name |-> "CERTIFICATE", body |-> Ptr(1)]
                       ELSE [name |-> "X509 CRL", body |-> Ptr(1)]]

\* what the caller's *certstack holds before the call
PriorChain == Ptr(<<Ptr(2)>>)

InitPilot(creds) ==
    /\ payload_chain_needs_cleaning = 0
    /\ cred \in ReadCreds(creds)
    /\ pc = "pilot"
    /\ loc = InitLoc(0)
    /\ file \in Files
    /\ fdt = IdleFdt
    /\ wr \in [policy : {0, LCK_FCNTL, LCK_FLOCK}, holds : {{}}]
    /\ hist = InitHist
    /\ call \in [proxy : {NULL, Ptr("path")}, lock_type : LockTypeT]
    /\ result = [rc |-> 0, certstack |-> PriorChain]

\* lines 108-133 with LCK_NOLOCK for a lock_type without a case
GP_Call_DefaultNoLock ==
    /\ pc = "pilot"
    /\ IF call.proxy = NULL
       THEN /\ result' = [result EXCEPT !.rc = -1]
            /\ pc' = "returned"
            /\ UNCHANGED loc
       ELSE /\ loc' = InitLoc(IF lock_flags(call.lock_type) = NULL THEN LCK_NOLOCK
                              ELSE Deref(lock_flags(call.lock_type)))
            /\ pc' = "call"
            /\ UNCHANGED result
    /\ UNCHANGED <<cred, file, fdt, wr, hist, call,
                   payload_chain_needs_cleaning>>

\* lines 108-135: getenv, the switch on lock_type, the call of read_proxy
GP_Call ==
    /\ pc = "pilot"
    /\ IF call.proxy = NULL \/ lock_flags(call.lock_type) = NULL
       THEN /\ result' = [result EXCEPT !.rc = -1]
            /\ pc' = "returned"
            /\ UNCHANGED loc
       ELSE /\ loc' = InitLoc(Deref(lock_flags(call.lock_type)))
            /\ pc' = "call"
            /\ UNCHANGED result
    /\ UNCHANGED <<cred, file, fdt, wr, hist, call,
                   payload_chain_needs_cleaning>>

\* lines 135-148: the return of read_proxy, the conversion of the buffer
\* and free(pem_buf) (line 140), after which no buffer is left (cap -1)
GP_Return(oks) ==
    /\ pc = "done"
    /\ pc' = "returned"
    /\ IF loc.ret # 0
       THEN /\ result' = [result EXCEPT !.rc = -1]
            /\ UNCHANGED loc
       ELSE /\ \E ok \in oks, push \in PushAnswers(Ptr(PemOf(loc.proxy)), oks) :
                 LET r == pem_string_to_x509_chain(result.certstack,
                                                   Ptr(PemOf(loc.proxy)),
                                                   ok, push)
                 IN result' = [rc |-> IF r.rc # 0 THEN -1 ELSE 0,
                               certstack |-> r.certstack]
            /\ loc' = [loc EXCEPT !.cap = -1]
    /\ UNCHANGED <<cred, file, fdt, wr, hist, call,
                   payload_chain_needs_cleaning>>

NextPilot(oks) == GP_Call \/ NextRead(oks) \/ GP_Return(oks)

\* psp_get_pilot_proxy in any environment
SpecPilot == InitPilot(Creds) /\ [][NextPilot(BOOLEAN)]_vars

(***************************************************************************)
(* psp_get_payload_proxy and psp_cleanup_chains, decision after decision   *)
(*                                                                         *)
(* call holds the arguments the framework passes for the decision in       *)
(* progress (an absent argument is NULL, a present one points to its       *)
(* value), loc the caller's payload chain with where it came from, result  *)
(* the decisions completed so far.                                         *)
(***************************************************************************)
MaxDecisions == 2

HostChain == Ptr(<<Ptr(1)>>)
PayloadPems == {str \in PemStrings : Len(str) = 1}
PayloadArgs ==
    [px509_chain : {NULL, Ptr(NULL), Ptr(HostChain)},
     pem_string  : {NULL, Ptr(NULL)} \cup {Ptr(Ptr(str)) : str \in PayloadPems}]

\* lcmaps_getArgValue found px509_chain and the chain it points to is set
HasHostChain(args) == args.px509_chain # NULL /\ Deref(args.px509_chain) # NULL

\* psp_get_payload_proxy(certstack, argc, argv) with the global at value
\* flag; ok: the allocations of the parser succeed; push: the answers of
\* its sk_X509_push
psp_get_payload_proxy(certstack, args, flag, ok, push) ==
    IF HasHostChain(args)
    THEN [rc |-> 0, certstack |-> Deref(args.px509_chain), flag |-> flag]
    ELSE IF args.pem_string = NULL \/ Deref(args.pem_string) = NULL
    THEN [rc |-> -1, certstack |-> certstack, flag |-> flag]
    ELSE LET r == pem_string_to_x509_chain(NULL, Deref(args.pem_string), ok, push)
         IN IF r.rc # 0
            THEN [rc |-> -1, certstack |-> certstack, flag |-> flag]
            ELSE [rc |-> 0, certstack |-> r.certstack, flag |-> 1]

\* psp_cleanup_chains(pilot, payload): which of the two chains is freed
psp_cleanup_chains(pilot, payload, flag) ==
    [pilot   |-> pilot # NULL,
     payload |-> flag # 0 /\ payload # NULL]

\* the caller's variables at the start of a decision
NewDecision == [payload |-> NULL, origin |-> "none", rc |-> 0]

InitPayload ==
    /\ payload_chain_needs_cleaning = 0
    /\ pc = "get_payload"
    /\ call \in PayloadArgs
    /\ loc = NewDecision
    /\ result = <<>>
    /\ cred = IdleCred /\ file = IdleFile /\ fdt = IdleFdt
    /\ wr = IdleWr /\ hist = IdleHist

PP_Get(oks) ==
    /\ pc = "get_payload"
    /\ \E ok \in oks,
          push \in PushAnswers(IF call.pem_string = NULL THEN NULL
                               ELSE Deref(call.pem_string), oks) :
         LET r == psp_get_payload_proxy(loc.payload, call,
                                        payload_chain_needs_cleaning, ok, push)
         IN /\ loc' = [payload |-> r.certstack,
                       origin  |-> IF r.rc # 0 THEN "none"
                                   ELSE IF HasHostChain(call) THEN "host"
                                   ELSE "parsed",
                       rc      |-> r.rc]
            /\ payload_chain_needs_cleaning' = r.flag
    /\ pc' = "cleanup"
    /\ UNCHANGED <<cred, file, fdt, wr, hist, call, result>>

PP_Cleanup ==
    /\ pc = "cleanup"
    /\ LET f == psp_cleanup_chains(PriorChain, loc.payload,
                                   payload_chain_needs_cleaning)
       IN result' = Append(result, [origin |-> loc.origin, rc |-> loc.rc,
                                    freed |-> f.payload])
    /\ IF Len(result') < MaxDecisions
       THEN /\ pc' = "get_payload" /\ call' \in PayloadArgs
       ELSE /\ pc' = "finished" /\ UNCHANGED call
    /\ loc' = NewDecision
    /\ UNCHANGED <<cred, file, fdt, wr, hist, payload_chain_needs_cleaning>>

SpecPayload == InitPayload /\ [][PP_Get(BOOLEAN) \/ PP_Cleanup]_vars

(***************************************************************************)
(* The functions with an output argument, each called on its own:          *)
(* psp_get_pilot_proxy with read_proxy and the parser inside it, the       *)
(* parser alone, and psp_get_payload_proxy with psp_cleanup_chains         *)
(***************************************************************************)
InitOutputs == InitPilot(Creds) \/ InitPem \/ InitPayload

NextOutputs ==
    \/ NextPilot(BOOLEAN)
    \/ PemParse(BOOLEAN)
    \/ PP_Get(BOOLEAN) \/ PP_Cleanup

SpecOutputs == InitOutputs /\ [][NextOutputs]_vars

(***************************************************************************)
(* psp_get_fqans, psp_match_fqan and psp_store_fqans                       *)
(*                                                                         *)
(* call holds the plugin arguments nfqan and fqan_list as                  *)
(* lcmaps_getArgValue returns them (NULL when the framework has none) and  *)
(* the pattern to match; result holds the caller's nfqans and fqans, which *)
(* psp_get_fqans is given pointers to, and then what the calls returned.   *)
(* An FQAN and a pattern are sequences of characters.                      *)
(***************************************************************************)
Fqans == {<<"a">>, <<"a", "b">>, <<"b">>}
Patterns == {<<"*">>, <<"a", "*">>, <<"?">>, <<"b">>}
FqanLists == UNION {[1..n -> Fqans] : n \in 0..MaxFqans}

\* fnmatch(pattern, string, FNM_NOESCAPE) = 0: * stands for any characters,
\* ? for one, any other character for itself
RECURSIVE Matches(_, _)
Matches(p, str) ==
    IF p = <<>> THEN str = <<>>
    ELSE IF Head(p) = "*"
    THEN Matches(Tail(p), str) \/ (str # <<>> /\ Matches(p, Tail(str)))
    ELSE /\ str # <<>>
         /\ Head(p) = "?" \/ Head(p) = Head(str)
         /\ Matches(Tail(p), Tail(str))

fnmatch(pattern, string) == IF Matches(pattern, string) THEN 0 ELSE 1

\* fqans[i] is an element of the list fqans points to
InList(fqans, i) == fqans # NULL /\ i < Len(Deref(fqans))

\* *nfqans and *fqans are written only from the arguments that are there;
\* args.nfqan and args.fqan_list are the pointers lcmaps_getArgValue returns
psp_get_fqans(nfqans, fqans, args) ==
    IF args.nfqan # NULL
    THEN LET n == Deref(args.nfqan)
         IN IF n > 0 /\ args.fqan_list # NULL
            THEN [rc |-> 0, nfqans |-> n, fqans |-> args.fqan_list]
            ELSE [rc |-> 0, nfqans |-> n, fqans |-> fqans]
    ELSE [rc |-> 0, nfqans |-> nfqans, fqans |-> fqans]

\* the loop of psp_match_fqan from index i on: the set of its outcomes.
\* Reading fqans[i] outside the list is undefined: a crash, or whatever
\* string is found there.
RECURSIVE MatchFrom(_, _, _, _)
MatchFrom(i, nfqan, fqans, pattern) ==
    IF i >= nfqan THEN {[rc |-> 0, crashed |-> FALSE]}
    ELSE IF ~InList(fqans, i)
    THEN {[rc |-> 0, crashed |-> TRUE], [rc |-> 1, crashed |-> FALSE]}
         \cup MatchFrom(i + 1, nfqan, fqans, pattern)
    ELSE IF fnmatch(pattern, Deref(fqans)[i + 1]) = 0
    THEN {[rc |-> 1, crashed |-> FALSE]}
    ELSE MatchFrom(i + 1, nfqan, fqans, pattern)

psp_match_fqan(nfqan, fqans, pattern) == MatchFrom(0, nfqan, fqans, pattern)

\* a string that happens to lie where fqans[i] is read past the end of the
\* list
Stray == <<"~">>

\* what addCredentialData finds at the address &fqans[i] it is handed (line
\* 392): the entry of the list, or, past its end, what lies there; of a
\* NULL list &fqans[0] is NULL itself and there is nothing to read
EntryAt(fqans, i) ==
    IF InList(fqans, i) THEN Deref(fqans)[i + 1]
    ELSE IF fqans = NULL THEN NULL
    ELSE Stray

\* the call of addCredentialData for fqans[i] that does not return: none
\* for an entry of the list; outside the list the read of *(&fqans[i]) in
\* the sink is undefined, and crashes or finds a string there.  The sink
\* is not part of this source: handed NULL (a NULL list, i = 0) it crashes
\* or answers without reading; any other address in a NULL list is not
\* readable.
CrashAt(fqans, i, added) ==
    IF InList(fqans, i) THEN {}
    ELSE {[rc |-> 0, crashed |-> TRUE, added |-> added]}

\* the sink answers the call for fqans[i]: always, but at an address that
\* is neither NULL nor readable
SinkAnswers(fqans, i) == fqans # NULL \/ i = 0

\* after an answer that is not 0 the log of line 395 reads fqans[i]: of a
\* NULL list that is a crash, after the call
LogAt(fqans, rec) ==
    [rc |-> IF fqans = NULL THEN 0 ELSE -1, crashed |-> fqans = NULL,
     added |-> rec]

\* the loop of psp_store_fqans that goes on after a failed addCredentialData
RECURSIVE StoreFrom_GoOn(_, _, _, _, _)
StoreFrom_GoOn(i, nfqans, fqans, f, added) ==
    IF i >= nfqans
    THEN {[rc |-> IF \E k \in 1..Len(added) : added[k].rc # 0 THEN -1 ELSE 0,
           crashed |-> FALSE, added |-> added]}
    ELSE CrashAt(fqans, i, added)
         \cup IF ~SinkAnswers(fqans, i) THEN {}
              ELSE StoreFrom_GoOn(i + 1, nfqans, fqans, f,
                       Append(added, [index |-> i, fqan |-> EntryAt(fqans, i),
                                      rc |-> IF f[i + 1] THEN 0 ELSE 1]))

\* the loop of psp_store_fqans from index i on: the set of its outcomes.
\* f[i+1] says whether addCredentialData succeeds for fqans[i]; added lists
\* the calls of addCredentialData that returned so far
RECURSIVE StoreFrom(_, _, _, _, _)
StoreFrom(i, nfqans, fqans, f, added) ==
    IF i >= nfqans THEN {[rc |-> 0, crashed |-> FALSE, added |-> added]}
    ELSE CrashAt(fqans, i, added)
         \cup IF ~SinkAnswers(fqans, i) THEN {}
              ELSE IF f[i + 1]
              THEN StoreFrom(i + 1, nfqans, fqans, f,
                       Append(added, [index |-> i, fqan |-> EntryAt(fqans, i),
                                      rc |-> 0]))
              ELSE {LogAt(fqans, Append(added, [index |-> i,
                                               fqan |-> EntryAt(fqans, i),
                                               rc |-> 1]))}

psp_store_fqans(nfqans, fqans, f) == StoreFrom(0, nfqans, fqans, f, <<>>)

\* the plugin arguments the framework supplies: none, a count alone, a list
\* alone, or a list with its count
FqanArgs ==
    {[nfqan |-> NULL, fqan_list |-> NULL]}
    \cup {[nfqan |-> Ptr(n), fqan_list |-> NULL] : n \in 0..MaxFqans}
    \cup {[nfqan |-> NULL, fqan_list |-> Ptr(l)] : l \in FqanLists}
    \cup {[nfqan |-> Ptr(Len(l)), fqan_list |-> Ptr(l)] : l \in FqanLists}

InitFqans ==
    /\ payload_chain_needs_cleaning = 0
    /\ pc = "get_fqans"
    /\ call \in [args : FqanArgs, pattern : Patterns]
    /\ result \in [nfqans : 0..MaxFqans,
                   fqans : {NULL} \cup {Ptr(<<q>>) : q \in Fqans}]
    /\ IdleRest

GetFqans ==
    /\ pc = "get_fqans"
    /\ result' = psp_get_fqans(result.nfqans, result.fqans, call.args)
    /\ pc' = "match_fqan"
    /\ UNCHANGED <<cred, loc, file, fdt, wr, hist, call,
                   payload_chain_needs_cleaning>>

MatchFqan ==
    /\ pc = "match_fqan"
    /\ \E m \in psp_match_fqan(result.nfqans, result.fqans, call.pattern) :
          /\ result' = [nfqans |-> result.nfqans, fqans |-> result.fqans,
                        get |-> result.rc, match |-> m]
          /\ pc' = IF m.crashed THEN "crashed" ELSE "store_fqans"
    /\ UNCHANGED <<cred, loc, file, fdt, wr, hist, call,
                   payload_chain_needs_cleaning>>

StoreFqans(oks) ==
    /\ pc = "store_fqans"
    /\ \E r \in UNION {psp_store_fqans(result.nfqans, result.fqans, f) :
                          f \in [1..MaxFqans -> oks]} :
          /\ result' = [nfqans |-> result.nfqans, fqans |-> result.fqans,
                        get |-> result.get, match |-> result.match, store |-> r]
          /\ pc' = IF r.crashed THEN "crashed" ELSE "stored"
    /\ UNCHANGED <<cred, loc, file, fdt, wr, hist, call,
                   payload_chain_needs_cleaning>>

\* the payload certificates psp_store_proxy_dn is called with: the subject
\* name X509_get_subject_name returns, NULL when there is none
DnPayloads == {[subject |-> NULL], [subject |-> Ptr("/CN=payload")]}

\* psp_store_proxy_dn (lines 350-380): okname says whether X509_NAME_oneline
\* gives the name as a string, oksink whether addCredentialData answers 0;
\* the answer of addCredentialData is returned as it is
psp_store_proxy_dn(payload, okname, oksink) ==
    IF payload.subject = NULL \/ ~okname
    THEN [rc |-> -1, added |-> <<>>]
    ELSE LET rc == IF oksink THEN 0 ELSE 1
         IN [rc |-> rc,
             added |-> <<[type |-> "DN", dn |-> Deref(payload.subject),
                          rc |-> rc]>>]

\* psp_store_proxy_dn on the same credential data, after the FQANs
StoreProxyDn(oks) ==
    /\ pc = "stored"
    /\ pc' = "dn_stored"
    /\ \E payload \in DnPayloads, okname \in oks, oksink \in oks :
          result' = [nfqans |-> result.nfqans, fqans |-> result.fqans,
                     get |-> result.get, match |-> result.match,
                     store |-> result.store,
                     dn |-> psp_store_proxy_dn(payload, okname, oksink)]
    /\ UNCHANGED <<cred, loc, file, fdt, wr, hist, call,
                   payload_chain_needs_cleaning>>

\* the calls in a row; addCredentialData may fail
SpecFqans ==
    InitFqans /\ [][GetFqans \/ MatchFqan \/ StoreFqans(BOOLEAN)
                      \/ StoreProxyDn(BOOLEAN)]_vars

(***************************************************************************)
(* Properties of read_proxy, priv_drop and raise_priv                      *)
(***************************************************************************)
Done == pc = "done"
\* read_proxy was entered with effective uid 0 and a real uid that is not 0
Privileged == NeedsDrop(loc.euid, loc.uid)
IdentityAsAtEntry == cred.euid = loc.euid /\ cred.egid = loc.egid

\* C1: when read_proxy, entered with effective uid 0 and real uid not 0,
\* returns, on whatever path, the effective uid and gid are those at entry.
C1_IdentityRestored == (Done /\ Privileged) => IdentityAsAtEntry

\* C2: when read_proxy returns, the descriptor it opened is closed and the
\* process holds no fcntl or flock lock on the file.
C2_DescriptorClosedNoLockHeld == Done => (fdt.fd = -1 /\ fdt.locks = {})

\* both locks asked for, flock granted and fcntl refused: -6, nothing held
C2_Witness ==
    /\ Done /\ loc.lock_type = LCK_FCNTL + LCK_FLOCK
    /\ hist.locked = {"flock"} /\ loc.ret = -6
    /\ fdt.fd = -1 /\ fdt.locks = {}

\* a group or other read or write bit is set in the mode
GroupOtherBits(mode) ==
    \E b \in {S_IRGRP, S_IWGRP, S_IROTH, S_IWOTH} : HasBit(mode, b)

\* C3 as stated: on a file with a group or other read or write bit set
\* read_proxy returns -3.
C3_UnsafeModeAlwaysPermissionError ==
    (Done /\ GroupOtherBits(file.mode)) => loc.ret = -3

\* C3 amended: on a file with a group or other read or write bit set
\* read_proxy never reads and never succeeds; it returns -3 once the drop,
\* the open, the lock and the first fstat have succeeded, and the error of
\* the first of these that failed (-2, -1, -6, -1) otherwise.
C3_UnsafeModeRejected ==
    (Done /\ GroupOtherBits(file.mode)) =>
        /\ hist.nread = 0 /\ loc.ret # 0
        /\ loc.ret = CASE hist.exit = "drop"   -> -2
                       [] hist.exit = "open"   -> -1
                       [] hist.exit = "lock"   -> -6
                       [] hist.exit = "fstat1" -> -1
                       [] OTHER                -> -3
        /\ (hist.nsnap > 0 /\ <<"fstat", TRUE>> \in hist.access) => loc.ret = -3

\* the owner's file, readable by the others, both locks taken after a drop
C3_Witness ==
    /\ Done /\ Privileged /\ file.uid = loc.uid
    /\ file.mode = S_IRWUSR + S_IROTH
    /\ hist.locked = {"flock", "fcntl"}
    /\ loc.ret = -3

\* C4: when every snapshot differs from the one before it in size, mtime
\* or ctime, read_proxy reads 10 times and returns -5; it returns -5 only
\* after 10 reads.
C4_ExactlyTenReadsThenTooManyRetries ==
    Done => /\ (hist.nsnap >= 2 /\ hist.alldiff) =>
                   (hist.nread = 10 /\ loc.ret = -5)
            /\ loc.ret = -5 => hist.nread = 10

\* eleven snapshots, each different from the one before, around ten reads
C4_Witness ==
    /\ Done /\ hist.alldiff /\ hist.nsnap = 11
    /\ hist.nread = 10 /\ loc.ret = -5

\* the other process wrote once, between the first snapshot and the first
\* snapshot after a read, and not again up to the last snapshot
WroteOnce == hist.mods = 1 /\ hist.win

\* read_proxy leaves its loop after the snapshot that ends it (lines 680-710)
LeavesLoop == pc = "stat" /\ pc' \in {"unlock2", "close"}

\* the return of 0 (lines 723-725) hands over the bytes in the buffer
HandsOverBuffer ==
    (pc = "closed" /\ pc' = "done") =>
        /\ loc'.ret = loc.rc
        /\ loc.rc = 0 => loc'.proxy = loc.buf

\* C5 as stated: after one write between the first snapshot and the first
\* snapshot after a read, read_proxy succeeds with the content written,
\* which the file still holds at the last snapshot.
C5_SingleChangeFinalContent ==
    /\ [][(LeavesLoop /\ WroteOnce) =>
             (loc'.rc = 0 /\ loc'.buf = file.data)]_vars
    /\ [][HandsOverBuffer]_vars

\* C5 amended: after one write between the first snapshot and the first
\* snapshot after a read that changed the size, the mtime or the ctime,
\* read_proxy succeeds, at the second read, with the content written,
\* which the file still holds at the last snapshot; after one that changed
\* none of them it succeeds at the first read, with the content before or
\* after the write.
C5_SingleVisibleChangeFinalContent ==
    /\ [][(LeavesLoop /\ WroteOnce) =>
             IF hist.vis
             THEN loc'.rc = 0 /\ loc'.buf = file.data /\ hist.nread = 2
             ELSE loc'.rc = 0 /\ hist.nread = 1]_vars
    /\ [][HandsOverBuffer]_vars
    /\ []((Done /\ WroteOnce) => loc.ret = 0)

C5_Witness ==
    /\ Done /\ WroteOnce /\ hist.vis
    /\ loc.ret = 0 /\ hist.nread = 2
    /\ loc.proxy = file.data /\ Len(loc.proxy) = MaxSize

\* C7: in a read_proxy entered with effective uid 0 and real uid not 0,
\* every open, lock, fstat and read runs with the effective ids equal to
\* the real ids; after a failed drop read_proxy returns -2 and has made
\* none of them.
C7_FileAccessAtRealIds ==
    Privileged =>
        /\ \A a \in hist.access : a[2]
        /\ (hist.drop.called /\ hist.drop.rc # 0) =>
               (Done /\ loc.ret = -2 /\ hist.access = {} /\ fdt.fd = -1)

\* a read after a drop of uid and gid
C7_Witness ==
    /\ Privileged /\ loc.egid # loc.gid
    /\ hist.drop.called /\ hist.drop.rc = 0 /\ Len(hist.drop.calls) = 2
    /\ {<<"open", TRUE>>, <<"fstat", TRUE>>, <<"read", TRUE>>} \subseteq hist.access

\* C6: priv_drop(U,R) and then raise_priv(0,G), called with effective uid 0,
\* effective gid G, real uid U # 0 and real gid R, leave effective uid 0
\* and effective gid G.
DropThenRaise(k) ==
    /\ k + 1 <= Len(result)
    /\ result[k].op = "priv_drop" /\ result[k + 1].op = "raise_priv"
    /\ result[k].before.euid = 0 /\ result[k].before.ruid # 0
    /\ result[k].uid = result[k].before.ruid
    /\ result[k].gid = result[k].before.rgid
    /\ result[k + 1].uid = 0 /\ result[k + 1].gid = result[k].before.egid

C6_DropThenRaiseRestores ==
    pc = "priv" =>
        \A k \in 1..MaxOps :
            DropThenRaise(k) =>
                /\ result[k].rc = 0 /\ result[k + 1].rc = 0
                /\ result[k].after.euid = result[k].before.ruid
                /\ result[k].after.egid = result[k].before.rgid
                /\ result[k + 1].after.euid = 0
                /\ result[k + 1].after.egid = result[k].before.egid

\* the round trip with a real gid that differs from the effective gid
C6_Witness ==
    /\ pc = "priv"
    /\ DropThenRaise(1)
    /\ result[1].before.rgid # result[1].before.egid
    /\ result[1].after.egid = result[1].before.rgid
    /\ result[2].after.euid = 0 /\ result[2].after.egid = result[1].before.egid

(***************************************************************************)
(* Properties of psp_verify_proxy_signature, pem_string_to_x509_chain,     *)
(* psp_proxy_is_rfc and psp_proxy_is_limited                               *)
(***************************************************************************)
BothPresent == call.payload # NULL /\ call.pilot # NULL
KeyExtractable == BothPresent /\ Deref(call.pilot).pubkey # NULL
\* the payload carries a well-formed signature made with the pilot's key
SignedByPilot ==
    /\ KeyExtractable
    /\ Deref(call.payload).sig = "good"
    /\ Deref(call.payload).signer = Deref(Deref(call.pilot).pubkey)

\* C8: psp_verify_proxy_signature returns 0 exactly when both certificates
\* are there, the pilot's public key can be extracted and the payload's
\* signature verifies under it, and -1 otherwise; it reports an absent
\* argument as unset and another signer as not signed by the pilot; every
\* key reference it took it has freed, signature matching or not.
C8_VerifiedIffSignedByPilot ==
    pc = "verified" =>
        /\ result.rc \in {0, -1}
        /\ result.rc = 0 <=> SignedByPilot
        /\ ~BothPresent => result.log = "unset"
        /\ (KeyExtractable /\ ~SignedByPilot) => result.log = "not signed"
        /\ KeyExtractable => result.got = 1
        /\ result.freed = result.got

\* a well-formed signature of another key: rejected, the key freed
C8_Witness ==
    /\ pc = "verified" /\ KeyExtractable
    /\ Deref(call.payload).sig = "good"
    /\ Deref(call.payload).signer # Deref(Deref(call.pilot).pubkey)
    /\ result.rc = -1 /\ result.log = "not signed"
    /\ result.got = 1 /\ result.freed = 1

IsCertificate(b) == b.name = "CERTIFICATE" /\ b.body # NULL
\* the certificates of the string, in its order
CertificatesOf(str) ==
    LET cs == SelectSeq(str, IsCertificate)
    IN [i \in 1..Len(cs) |-> cs[i].body]

\* C9: pem_string_to_x509_chain, given a string of PEM blocks of which at
\* least one decodes to a certificate, whatever the other blocks are,
\* returns 0 and the chain of exactly the certificates that decode, in the
\* order of the string; given NULL or a string of which no block decodes to
\* a certificate, it fails and yields no chain; the chain it yields is
\* never empty.
C9_ChainOfExactlyTheCertificates ==
    pc = "parsed" =>
        /\ IF call # NULL /\ Len(CertificatesOf(Deref(call))) >= 1
           THEN result.rc = 0
                /\ result.certstack = Ptr(CertificatesOf(Deref(call)))
           ELSE result.rc # 0 /\ result.certstack = NULL
        /\ result.certstack # Ptr(<<>>)

\* the extensions of the proxy that are a proxy certificate information
PciExtensions(proxy) ==
    {i \in 1..Len(proxy) : proxy[i].object = Ptr(Obj_proxyCertInfo)}
\* the policy language of a proxy certificate information, NULL when the
\* value does not decode or has no policy or no policy language
PolicyLanguageOf(ex) ==
    IF ex.value = NULL THEN NULL
    ELSE IF Deref(ex.value).proxyPolicy = NULL THEN NULL
    ELSE Deref(Deref(ex.value).proxyPolicy).policyLanguage

\* C10: psp_proxy_is_limited returns 1 only for a certificate for which
\* psp_proxy_is_rfc returns 1 and whose proxy certificate information has
\* the policy language 1.3.6.1.4.1.3536.1.1.1.9; it returns 0 when there
\* is no such extension, when its policy language is absent and when its
\* content does not decode.
C10_LimitedOnlyIfRfcAndLimitedPolicy ==
    pc = "classified" =>
        /\ result.limited \in {0, 1} /\ result.rfc \in {0, 1}
        /\ result.limited = 1 =>
               /\ result.rfc = 1
               /\ \E i \in PciExtensions(call) :
                      PolicyLanguageOf(call[i]) = Ptr(Obj_limited)
        /\ PciExtensions(call) = {} => result.limited = 0
        /\ (\E i \in PciExtensions(call) : PolicyLanguageOf(call[i]) = NULL)
               => result.limited = 0

\* a limited proxy: key usage, then the proxy certificate information
C10_Witness ==
    /\ pc = "classified" /\ Len(call) = 2
    /\ call[1].object = Ptr(Obj_keyUsage)
    /\ PciExtensions(call) = {2}
    /\ PolicyLanguageOf(call[2]) = Ptr(Obj_limited)
    /\ result.limited = 1 /\ result.rfc = 1

(***************************************************************************)
(* Properties of psp_get_fqans, psp_match_fqan and psp_store_fqans         *)
(***************************************************************************)
\* the framework supplies no FQAN data: no nfqan argument, or a positive
\* nfqan without an fqan_list argument
NoFqanData ==
    \/ call.args.nfqan = NULL
    \/ Deref(call.args.nfqan) > 0 /\ call.args.fqan_list = NULL

\* C11: without FQAN data from the framework psp_get_fqans returns 0 and
\* leaves the caller the count 0, whatever the caller's count and list
\* were; psp_match_fqan then returns 0 and psp_store_fqans adds nothing.
C11_NoFqanDataIsEmptySet ==
    (pc # "get_fqans" /\ NoFqanData) =>
        /\ result.nfqans = 0
        /\ pc # "crashed"
        /\ pc = "match_fqan" => result.rc = 0
        /\ pc = "store_fqans" => result.match.rc = 0
        /\ pc = "stored" => result.store.added = <<>>

\* the entries given to addCredentialData, with the result of each
Added == result.store.added

\* C12: psp_store_fqans gives the FQANs to addCredentialData in the order
\* of the list, each entry of the list as it is there; when the call for
\* index i fails, the entries 0..i-1 have been added, none after i has been
\* tried and -1 is returned; 0 is returned only when all nfqans entries
\* were added.
C12_StoreInOrderStopAtFirstFailure ==
    pc = "stored" =>
        /\ Len(Added) <= result.nfqans
        /\ \A k \in 1..Len(Added) :
              /\ Added[k].index = k - 1
              /\ InList(result.fqans, k - 1) =>
                     Added[k].fqan = Deref(result.fqans)[k]
              /\ k < Len(Added) => Added[k].rc = 0
        /\ result.store.rc \in {0, -1}
        /\ result.store.rc = 0 <=>
              (Len(Added) = result.nfqans /\ \A k \in 1..Len(Added) : Added[k].rc = 0)
        /\ result.store.rc = -1 <=>
              (Len(Added) >= 1 /\ Added[Len(Added)].rc # 0)

\* two FQANs, the first added, the second refused
C12_Witness ==
    /\ pc = "stored" /\ result.nfqans = 2
    /\ Len(Added) = 2 /\ Added[1].rc = 0 /\ Added[2].rc # 0
    /\ Added[1].fqan # Added[2].fqan
    /\ result.store.rc = -1

(***************************************************************************)
(* Properties of psp_get_pilot_proxy                                       *)
(***************************************************************************)
ValidPilotInputs ==
    /\ call.proxy # NULL
    /\ call.lock_type \in {"LOCK_NOLOCK", "LOCK_FCNTL", "LOCK_FLOCK"}

\* C13: psp_get_pilot_proxy returns -1 when X509_USER_PROXY is unset and
\* when lock_type is none of the three lock types, having changed no
\* identity, opened and locked nothing and left *certstack as it was; with
\* both valid it returns -1 whenever read_proxy fails or the buffer holds no
\* certificate, and 0 with the chain otherwise.
C13_PilotProxyFailsEarlyOnBadInput ==
    pc = "returned" =>
        IF ~ValidPilotInputs
        THEN /\ result.rc = -1 /\ result.certstack = PriorChain
             /\ ~hist.drop.called /\ hist.restore = <<>>
             /\ hist.access = {} /\ hist.locked = {}
             /\ loc = InitLoc(0)
        ELSE /\ result.rc \in {0, -1}
             /\ loc.ret # 0 => (result.rc = -1 /\ result.certstack = PriorChain)
             /\ (loc.ret = 0 /\ \A i \in 1..Len(loc.proxy) : loc.proxy[i] # 1)
                    => (result.rc = -1 /\ result.certstack = PriorChain)
             /\ result.rc = 0 =>
                    /\ loc.ret = 0
                    /\ result.certstack # NULL /\ result.certstack # PriorChain
                    /\ Len(Deref(result.certstack)) >= 1

\* a set-uid-root caller with a lock type that is none of the three
C13_Witness ==
    /\ pc = "returned"
    /\ call.proxy # NULL /\ call.lock_type = "other"
    /\ cred.euid = 0 /\ cred.ruid # 0 /\ cred.egid # cred.rgid
    /\ result.rc = -1 /\ result.certstack = PriorChain
    /\ hist.access = {}

(***************************************************************************)
(* Properties of filelock                                                  *)
(***************************************************************************)
\* C14: filelock with LCK_NOLOCK in lock_type makes no locking call,
\* changes no lock and returns 0, for every action and whatever other bits
\* are set; with LCK_FLOCK and LCK_FCNTL (and a valid action) it calls
\* flock and then fcntl, also after a failed flock, and returns 0 exactly
\* when both succeeded.
C14_NoLockIsNoOpBothNeedsBoth ==
    pc = "locked" =>
        /\ HasBit(call.lock_type, LCK_NOLOCK) =>
              /\ result.rc = 0 /\ result.calls = <<>>
              /\ fdt.locks = call.locks
        /\ (call.lock_type = LCK_FCNTL + LCK_FLOCK /\ call.action \in LockActions) =>
              /\ Len(result.calls) = 2
              /\ result.calls[1].fn = "flock" /\ result.calls[2].fn = "fcntl"
              /\ result.rc = 0 <=> (result.calls[1].rc = 0 /\ result.calls[2].rc = 0)
              /\ result.rc \in {0, -1}

\* both primitives asked for a read lock: flock granted, fcntl refused
C14_Witness ==
    /\ pc = "locked"
    /\ call.lock_type = LCK_FCNTL + LCK_FLOCK /\ call.action = LCK_READ
    /\ call.locks = {}
    /\ Len(result.calls) = 2
    /\ result.calls[1].rc = 0 /\ result.calls[2].rc = -1
    /\ result.rc = -1 /\ fdt.locks = {"flock"}

(***************************************************************************)
(* Waiting for the lock                                                    *)
(***************************************************************************)
\* read_proxy is in a locking call that the other process's exclusive lock
\* of the same primitive keeps from returning
Blocked ==
    \/ /\ pc = "lock" /\ ~HasBit(loc.lock_type, LCK_NOLOCK)
       /\ HasBit(loc.lock_type, LCK_FLOCK) /\ "flock" \in wr.holds
    \/ /\ pc = "lock2"
       /\ HasBit(loc.lock_type, LCK_FCNTL) /\ "fcntl" \in wr.holds

\* the order of the steps of read_proxy
Rank(p) ==
    CASE p = "call" -> 0 [] p = "open" -> 1 [] p = "lock" -> 2
      [] p = "lock2" -> 3 [] p = "fstat" -> 4 [] p = "read" -> 5
      [] p = "stat" -> 6 [] p = "sleep" -> 7 [] p = "unlock2" -> 8
      [] p = "close" -> 9 [] p = "closed" -> 10 [] OTHER -> 11

\* C15: while the other process holds the exclusive lock read_proxy asks
\* for, read_proxy does not move; if no call fails and read_proxy is
\* scheduled, it returns whenever the lock is eventually left free; once it
\* has its locks it always returns, after at most 10 reads, and the only
\* step it ever goes back to is the read after a changed snapshot.
C15_WaitsForLockThenReturns ==
    /\ [][Blocked => UNCHANGED <<cred, pc, loc, fdt, hist>>]_vars
    /\ (<>[](~Blocked)) => <>Done
    /\ (pc \in {"fstat", "read", "stat", "sleep"}) ~> Done
    /\ [](hist.nread <= 10)
    /\ [][Rank(pc') >= Rank(pc) \/ (pc = "sleep" /\ pc' = "read")]_vars

\* read_proxy holds its flock and waits for the fcntl lock of the other
\* process
C15_Witness ==
    /\ Blocked /\ pc = "lock2"
    /\ fdt.locks = {"flock"} /\ wr.holds = {"fcntl"}

(***************************************************************************)
(* Ownership of the payload chain                                          *)
(***************************************************************************)
\* C16: in every decision psp_cleanup_chains frees the payload chain
\* exactly when psp_get_payload_proxy parsed it from the PEM string in that
\* decision; a chain of the host framework is never freed.
C16_FreedIffParsedInHouse ==
    \A i \in 1..Len(result) :
        result[i].freed <=> result[i].origin = "parsed"

(***************************************************************************)
(* The calls of priv_drop and raise_priv                                   *)
(***************************************************************************)
\* the call with function fn and argument arg
IsCall(k, fn, arg) == k.fn = fn /\ k.arg = arg

\* C17: priv_drop(uid, gid) calls setegid(gid) first, when gid is not the
\* effective gid, and stops there with the identity unchanged when that
\* fails; seteuid(uid) comes after it, never with uid 0; after a failed
\* seteuid the only further call is setegid(effective gid at entry) and the
\* return value is that of seteuid whatever that call returns; at the
\* target identity already, there is no call and the return value is 0.
C17_GidBeforeUidRollBackOnFailure ==
    \A n \in 1..Len(result) :
        LET d == result[n]
            k == d.calls
            needG == d.gid # d.before.egid
            u == IF needG THEN 2 ELSE 1
        IN d.op = "priv_drop" =>
            /\ needG => /\ Len(k) >= 1 /\ IsCall(k[1], "setegid", d.gid)
                        /\ k[1].rc # 0 =>
                              Len(k) = 1 /\ d.after = d.before /\ d.rc = k[1].rc
            /\ \A i \in 1..Len(k) :
                  k[i].fn = "seteuid" =>
                     /\ i = u /\ k[i].arg = d.uid /\ k[i].arg # 0
                     /\ k[i].rc # 0 =>
                          /\ Len(k) = i + 1
                          /\ IsCall(k[i + 1], "setegid", d.before.egid)
                          /\ d.rc = k[i].rc
            /\ d.rc = 0 => \A i \in 1..Len(k) : k[i].rc = 0
            /\ (d.gid = d.before.egid /\ d.uid = d.before.euid) =>
                  k = <<>> /\ d.rc = 0 /\ d.after = d.before

\* the group was changed, seteuid failed, and the setegid back failed too
C17_Witness ==
    /\ Len(result) = 1 /\ result[1].op = "priv_drop"
    /\ Len(result[1].calls) = 3
    /\ result[1].calls[1].rc = 0
    /\ result[1].calls[2].rc # 0 /\ result[1].calls[3].rc # 0
    /\ result[1].rc = result[1].calls[2].rc
    /\ result[1].after.egid = result[1].gid
    /\ result[1].after.egid # result[1].before.egid

\* the calls raise_priv(euid, egid) is to make from credentials c
RaiseOrder(c, euid, egid) ==
    IF euid = 0
    THEN <<[fn |-> "seteuid", arg |-> 0], [fn |-> "setegid", arg |-> egid]>>
    ELSE IF c.ruid = 0
    THEN <<[fn |-> "seteuid", arg |-> 0], [fn |-> "setegid", arg |-> egid],
           [fn |-> "seteuid", arg |-> euid]>>
    ELSE <<>>

\* C18: the calls of raise_priv(euid, egid) are the beginning of one of
\* three orders -- seteuid(0), setegid(egid) when euid is 0; seteuid(0),
\* setegid(egid), seteuid(euid) when only the real uid is 0; none
\* otherwise, with -1 returned -- up to and including the first call that
\* fails; it returns 0 exactly when all calls of the order were made and
\* succeeded, -1 otherwise.
C18_OneOfThreeOrdersStopAtFailure ==
    \A n \in 1..Len(result) :
        LET d == result[n]
            k == d.calls
            e == RaiseOrder(d.before, d.uid, d.gid)
        IN d.op = "raise_priv" =>
            /\ Len(k) <= Len(e)
            /\ e # <<>> => Len(k) >= 1
            /\ \A i \in 1..Len(k) : IsCall(k[i], e[i].fn, e[i].arg)
            /\ \A i \in 1..(Len(k) - 1) : k[i].rc = 0
            /\ Len(k) < Len(e) => k[Len(k)].rc # 0
            /\ d.rc \in {0, -1}
            /\ d.rc = 0 <=> /\ e # <<>> /\ Len(k) = Len(e)
                            /\ \A i \in 1..Len(k) : k[i].rc = 0

\* root running a set-uid non-root program: seteuid(0) succeeded, setegid
\* failed, the third call was not made
C18_Witness ==
    /\ Len(result) = 1 /\ result[1].op = "raise_priv"
    /\ result[1].uid # 0 /\ result[1].before.ruid = 0
    /\ Len(result[1].calls) = 2
    /\ result[1].calls[1].rc = 0 /\ result[1].calls[2].rc # 0
    /\ result[1].rc = -1
    /\ result[1].after.euid = 0

(***************************************************************************)
(* The check of owner and mode comes before every read                     *)
(***************************************************************************)
\* the file belongs to the real uid read_proxy was entered with and nobody
\* else may read or write it
OwnedAndPrivate == file.uid = loc.uid /\ ~GroupOtherBits(file.mode)

\* C19: read_proxy reads, and is in its loop, only on a file that at the
\* first snapshot belonged to the real uid and had no group or other read
\* or write bit; it returns 0 only on such a file; on any other file the
\* first snapshot is the last: -3 is returned without a read.
C19_NoReadBeforeOwnerModeCheck ==
    /\ (hist.nread > 0 \/ pc \in {"read", "stat"}) => OwnedAndPrivate
    /\ (Done /\ loc.ret = 0) => (OwnedAndPrivate /\ hist.nread >= 1)
    /\ (Done /\ hist.nsnap >= 1 /\ ~OwnedAndPrivate) =>
          /\ loc.ret = -3 /\ hist.exit = "perm"
          /\ hist.nread = 0 /\ hist.nsnap = 1

\* a file of mode 0600 that belongs to somebody else
C19_Witness ==
    /\ Done /\ file.uid # loc.uid /\ file.mode = S_IRWUSR
    /\ hist.nsnap = 1 /\ hist.nread = 0
    /\ loc.ret = -3

(***************************************************************************)
(* Reader and writer under the same lock                                   *)
(***************************************************************************)
\* read_proxy locks with fcntl, or with flock, and the other process writes
\* only under its exclusive lock of the same primitive
SameLockDiscipline ==
    /\ loc.lock_type \in {LCK_FCNTL, LCK_FLOCK}
    /\ wr.policy = loc.lock_type

\* C20: when read_proxy and the other process lock with the same primitive
\* and no call fails, the file is not written between the first snapshot
\* and the last; read_proxy reads once, never returns -5, and after its one
\* read returns 0 with the content the file has at the last snapshot.
C20_NoWriteUnderSameLock ==
    /\ [](SameLockDiscipline =>
            /\ hist.mods = 0
            /\ hist.nread <= 1
            /\ Done => loc.ret # -5
            /\ (Done /\ hist.nread >= 1) =>
                  /\ hist.nread = 1 /\ hist.nsnap = 2
                  /\ loc.ret = 0)
    /\ [][(LeavesLoop /\ SameLockDiscipline) =>
             (loc'.rc = 0 /\ loc'.buf = file.data)]_vars
    /\ [][HandsOverBuffer]_vars

\* the other process wrote under its fcntl lock before read_proxy got its
\* own, and read_proxy read what it wrote
C20_Witness ==
    /\ Done /\ SameLockDiscipline /\ loc.lock_type = LCK_FCNTL
    /\ file.ctime > 0 /\ Len(file.data) = MaxSize
    /\ hist.nread = 1 /\ loc.ret = 0 /\ loc.proxy = file.data

(***************************************************************************)
(* The buffer of read_proxy                                                *)
(***************************************************************************)
\* read_proxy leaves its loop with value v to return
LoopReturns(v) == pc = "stat" /\ pc' \in {"unlock2", "close"} /\ loc'.rc = v

\* C21: in the loop the capacity of the buffer is at least the size of the
\* snapshot used as read length plus one, and what a read put in the buffer
\* is at most that size; when the loop is left with 0 the bytes read are as
\* many as that size, at the return of 0 the terminator goes at that index,
\* below the capacity, and the bytes before it are what is returned; after
\* a read of another length on a file whose snapshot is unchanged the
\* return value is -1.
C21_BufferHoldsReadAndTerminator ==
    /\ [](pc \in {"read", "stat", "sleep"} =>
             loc.cap >= loc.sptr1.st_size + 1)
    /\ [](pc = "stat" => /\ loc.size <= loc.sptr1.st_size
                         /\ Len(loc.buf) <= loc.sptr1.st_size
                         /\ Len(loc.buf) < loc.cap)
    /\ [][LoopReturns(0) => /\ loc.size = loc.sptr1.st_size
                            /\ loc'.size = loc.size /\ loc'.buf = loc.buf
                            /\ loc'.cap = loc.cap]_vars
    /\ []((pc \in {"unlock2", "close", "closed"} /\ loc.rc = 0) =>
             /\ loc.size >= 0 /\ loc.size < loc.cap
             /\ Len(loc.buf) = loc.size)
    /\ [][(pc = "closed" /\ pc' = "done" /\ loc.rc = 0) =>
             /\ loc'.ret = 0
             /\ Len(loc'.proxy) = loc.size
             /\ loc'.proxy = loc.buf]_vars
    /\ [][(pc = "stat" /\ pc' \in {"unlock2", "close"} /\ hist'.exit = "equal"
              /\ loc.size # loc.sptr1.st_size) => loc'.rc = -1]_vars
    /\ [][(pc = "closed" /\ pc' = "done") => loc'.ret = loc.rc]_vars

\* after one write and a retry, the second read filled the buffer up to the
\* place of the terminator
C21_Witness ==
    /\ pc = "stat" /\ loc.i >= 1
    /\ loc.sptr1.st_size = MaxSize /\ loc.size = MaxSize
    /\ Len(loc.buf) = MaxSize /\ loc.cap = MaxSize + 1
    /\ hist.nread = 2 /\ hist.mods = 1

(***************************************************************************)
(* Outputs are written on success only                                     *)
(***************************************************************************)
\* p holds what *proxy held when read_proxy was entered
Unwritten(p) == ToString(p) = ToString(None)

\* C22: a read_proxy that returns non-zero leaves *proxy as it was and no
\* buffer allocated; a psp_get_pilot_proxy, a pem_string_to_x509_chain or
\* a psp_get_payload_proxy that returns non-zero leaves *certstack as it
\* was, and the last of them payload_chain_needs_cleaning too.
C22_OutputsWrittenOnSuccessOnly ==
    /\ [][(pc' = "done" /\ pc # "done" /\ loc'.ret # 0) =>
             /\ Unwritten(loc.proxy) /\ Unwritten(loc'.proxy)
             /\ loc'.cap = -1]_vars
    /\ [][(pc' = "returned" /\ pc # "returned" /\ result'.rc # 0) =>
             result'.certstack = result.certstack]_vars
    /\ [][(pc' = "parsed" /\ pc = "parse" /\ result'.rc # 0) =>
             result'.certstack = result.certstack]_vars
    /\ [][(pc = "get_payload" /\ pc' = "cleanup" /\ loc'.rc # 0) =>
             /\ loc'.payload = loc.payload
             /\ payload_chain_needs_cleaning' = payload_chain_needs_cleaning]_vars

\* psp_get_pilot_proxy failed on a file that changed at every one of the ten
\* reads: *proxy unwritten, no buffer left, the caller's chain still there
C22_Witness ==
    /\ pc = "returned" /\ result.rc = -1 /\ result.certstack = PriorChain
    /\ hist.nread = 10 /\ hist.exit = "exhausted" /\ loc.ret = -5
    /\ Unwritten(loc.proxy) /\ loc.cap = -1

=============================================================================
